---- MODULE Spec2Model ----
(***************************************************************************)
(* The rarity engine of NFT-Gen (class RarityEngine): configuration load,  *)
(* quota state, weighted tier and variant selection with the seeded        *)
(* generator, score validation, and the bounded retry loop of generateNFT. *)
(*                                                                         *)
(* An engine object is a record; a method that reads or writes `this` is   *)
(* an operator from the engine record (and its arguments) to a record that *)
(* holds the engine afterwards and what the method returned or threw.      *)
(* JavaScript arrays are 0-based, the sequences here are 1-based.          *)
(***************************************************************************)
EXTENDS Integers, Sequences, FiniteSets, TLC

(* ---------------------------- bounds ----------------------------------- *)

\* Variants per trait: validateConfig demands 26, the model a smaller number.
NumVariants == 2
\* Traits: validateConfig demands the 6 expected names, the model the first few.
NumTraits == 2
\* Quotas of tiers and variants are drawn from 0..MaxQuota.
MaxQuota == 2
\* generateNFT calls per engine in one behaviour.
MaxCalls == 3
\* The largest retry ceiling a caller passes (the default of the code is 100).
MaxRetries == 3
\* The largest number of items a generation driver is asked for (props.config.supply,
\* --start/--end).
MaxSupply == 2
\* The failed attempts after which the interactive driver gives up (the code's
\* maxGlobalRetries is 10000).
MaxGlobalRetries == 2
\* RarityNFT: the largest tier quota of the contract under check (4000 in the
\* source); the other quotas follow in proportion.
TierQuotaScale == 1
\* RarityNFT: the longest rarityDataArray a caller passes to batchMintRarityNFTs.
MaxBatch == 2
\* RarityNFT: the tokens minted before the statistics of the contract with the
\* quotas of the source are read.
MaxMinted == 2

(* ----------------------- program constants ----------------------------- *)

InitialSeed == 42
LcgMultiplier == 9301
LcgIncrement == 49297
LcgModulus == 233280

(* --------------------------- small helpers ----------------------------- *)

\* A nullable field: null is None, a value x is Some(x).
None == << >>
Some(x) == << x >>
IsNull(o) == o = << >>
Val(o) == o[1]

RECURSIVE SumSeq(_)
SumSeq(s) == IF Len(s) = 0 THEN 0 ELSE Head(s) + SumSeq(Tail(s))

Indices(s) == [i \in 1..Len(s) |-> i]

(* -------------------------- configurations ----------------------------- *)

\* The tiers of the configurations the model loads, in configured order.
TierIds == << "T1", "T5" >>
TierNames == << "Ultra Rare", "Common" >>
TierIdSet == {TierIds[k] : k \in 1..Len(TierIds)}

expectedTraitNames ==
  SubSeq(<< "socks", "shoes", "pants", "shirt", "face", "hat" >>, 1, NumTraits)

VariantNames == << "a", "b", "c", "d", "e", "f", "g", "h", "i", "j", "k", "l" >>

\* The variants of a trait alternate between two kinds: the variants at odd
\* positions are worth 1 point, those at even positions 2 points. A configuration
\* tags each kind with a tier and gives it a quota, the same in every trait.
Kinds == {1, 2}
KindOf(v) == ((v - 1) % 2) + 1
PointsOfKind(kind) == kind

\* The score range of tier k: the first tier takes the single lowest score (every
\* trait at 1 point), the other tier every score above it.
LowestScore == NumTraits * PointsOfKind(1)
HighestScore == NumTraits * PointsOfKind(2)
ScoreRangeOf(k) ==
  IF k = 1 THEN << LowestScore, LowestScore >> ELSE << LowestScore + 1, HighestScore >>

\* Variant names are either shared by the traits ("a" is a variant of every trait)
\* or unique in the whole configuration.
VariantName(shared, t, v) ==
  IF shared THEN VariantNames[v] ELSE VariantNames[(t - 1) * NumVariants + v]

MakeConfig(tierQuota, kindTier, kindQuota, shared) ==
  [collectionSize |-> SumSeq(tierQuota),
   tiers |-> [k \in 1..Len(TierIds) |->
                [id |-> TierIds[k], name |-> TierNames[k],
                 quota |-> tierQuota[k], scoreRange |-> ScoreRangeOf(k)]],
   traits |-> [t \in 1..NumTraits |->
                [trait |-> expectedTraitNames[t],
                 variants |-> [v \in 1..NumVariants |->
                                 [name |-> VariantName(shared, t, v),
                                  tier |-> kindTier[KindOf(v)],
                                  points |-> PointsOfKind(KindOf(v)),
                                  quota |-> kindQuota[KindOf(v)]]]]]]

WellFormedConfigs ==
  {MakeConfig(tq, kt, kq, sh) : tq \in [1..Len(TierIds) -> 0..MaxQuota],
                                kt \in [Kinds -> TierIdSet],
                                kq \in [Kinds -> 0..MaxQuota],
                                sh \in BOOLEAN}

\* A configuration object may lack a property (config.tiers is undefined) or
\* carry an empty array for it. A record here has exactly the properties the
\* object has.
HasProperty(obj, property) == property \in DOMAIN obj
WithoutProperty(obj, property) == [f \in DOMAIN obj \ {property} |-> obj[f]]

\* The configuration the malformed ones are made from: one item of the second
\* tier, every list in order.
SampleConfig ==
  MakeConfig([k \in 1..Len(TierIds) |-> IF k = 2 THEN 1 ELSE 0],
             [kind \in Kinds |-> TierIds[kind]],
             [kind \in Kinds |-> IF kind = 2 THEN 1 ELSE 0], FALSE)

MalformedConfigs ==
  {WithoutProperty(SampleConfig, "tiers"), [SampleConfig EXCEPT !.tiers = << >>],
   WithoutProperty(SampleConfig, "traits"), [SampleConfig EXCEPT !.traits = << >>]}

\* Configurations whose collectionSize is one more than the sum of their tier
\* quotas (in the well-formed ones the two agree; the variant quotas of a trait
\* sum to anything there).
MismatchedConfigs ==
  {[MakeConfig([k \in 1..Len(TierIds) |-> IF k = 2 THEN 1 ELSE 0],
               [kind \in Kinds |-> TierIds[kind]],
               [kind \in Kinds |-> IF kind = 2 THEN q ELSE 0], FALSE)
      EXCEPT !.collectionSize = @ + 1] : q \in 1..MaxQuota}

\* What a caller hands to loadConfig.
Configs == WellFormedConfigs \cup MalformedConfigs \cup MismatchedConfigs

(* ------------------------------ state ---------------------------------- *)

Engines == {1, 2}

VARIABLES
  engine,     \* engine[e]: the fields of RarityEngine object e
  results,    \* results[e]: what each generateNFT call on e returned, in call order
  thrown,     \* thrown[e]: the error the last call on e threw to its caller, "" if none
  validation, \* validation[e]: what validateFinalGeneration returned or threw, when
              \* it was the last call on e; null otherwise
  draw,       \* what a direct call of selectTierWeighted on engine 1 returned or
              \* threw; null when there was none
  driver,     \* the generation driver that owns engine 1: its place in the code,
              \* its loop variables and the files it has written
  contract,   \* the deployed RarityNFT contract: its storage, the transaction on
              \* its way to it and the outcome of the last one
  callerConfig \* callerConfig[e]: the configuration object the caller passed to
              \* loadConfig of e, as the caller reads it now; null before the call

vars == << engine, results, thrown, validation, draw, driver, contract, callerConfig >>

\* The state outside the engine objects and the record of the calls on them.
outside == << draw, driver, contract, callerConfig >>

\* The largest value of a uint8 and of a uint16.
MaxUint8 == 255
MaxUint16 == 65535

\* RarityNFT.sol: string[9] public tierNames. enum RarityTier { T1, ..., T9 }
\* numbers the tiers from 0 in the same order.
tierNames ==
  << "Minimal", "Low", "BelowAverage", "Moderate", "Common", "AboveAverage", "High",
     "Peak", "Maximal" >>
RarityTier == 0..(Len(tierNames) - 1)

\* uint16[9] public tierQuotas, as the source writes them.
SourceTierQuotas == << 10, 100, 500, 2390, 4000, 2390, 500, 100, 10 >>

\* uint256 public constant MAX_SUPPLY, as the source writes it.
SourceMaxSupply == 10000

LargestOf(s) == CHOOSE x \in {s[i] : i \in DOMAIN s} : \A i \in DOMAIN s : s[i] <= x

\* The quotas of the contract under check: those of the source in proportion,
\* the largest one brought down to TierQuotaScale, and none below 1.
tierQuotas ==
  [i \in DOMAIN SourceTierQuotas |->
     IF (SourceTierQuotas[i] * TierQuotaScale) \div LargestOf(SourceTierQuotas) < 1
     THEN 1
     ELSE (SourceTierQuotas[i] * TierQuotaScale) \div LargestOf(SourceTierQuotas)]

\* MAX_SUPPLY of a contract with the given quotas: in the same proportion to
\* their sum as in the source (where the quotas sum to 10000, and MAX_SUPPLY is
\* 10000).
MAX_SUPPLY(quotas) == (SourceMaxSupply * SumSeq(quotas)) \div SumSeq(SourceTierQuotas)

\* Tier score ranges [min, max], one row per tier, read as
\* tierScoreRanges[uint8(tier)][0] and tierScoreRanges[uint8(tier)][1].
tierScoreRanges ==
  << << 42, 42 >>, << 60, 60 >>, << 78, 84 >>, << 102, 132 >>, << 144, 174 >>,
     << 186, 216 >>, << 228, 234 >>, << 252, 252 >>, << 270, 270 >> >>

\* The contract after its constructor, with the given array as tierQuotas:
\* tierSupply copied from tierQuotas, nothing minted, the token id counter at 0.
\* tokenRarity holds the RarityData records stored, without the token ids they
\* are stored under. allTokens is the length of the token list of
\* ERC721Enumerable, which totalSupply() returns. pending is the transaction
\* sent to the contract and not yet executed; reverted is the reason the last
\* executed call reverted with, "" when it did not or none was executed;
\* returned is what the last call of a view function returned, null when none did.
DeployedWith(quotas) ==
  [tierQuotas |-> quotas,
   tierSupply |-> [tier \in RarityTier |-> quotas[tier + 1]],
   tierMinted |-> [tier \in RarityTier |-> 0],
   tokenRarity |-> {},
   tokenIdCounter |-> 0,
   allTokens |-> 0,
   pending |-> None,
   reverted |-> "",
   returned |-> None]

Deployed == DeployedWith(tierQuotas)

\* No driver yet: the engines are called directly.
NoDriver ==
  [kind |-> "", pc |-> "idle", supply |-> 0, editionCount |-> 1, failed |-> 0,
   success |-> 0, checks |-> 0, emitted |-> {}, tierDistribution |-> << >>]

\* A constructor that seeds the generator from the clock: any seed may come out.
SeedFromClock == {InitialSeed, 7}

\* this.rngSeed = 42: the seeds a constructor may leave in a new engine.
ConstructorSeeds == {InitialSeed}

\* constructor()
NewEngine(seed) ==
  [config |-> None,
   remainingTierQuotas |-> None,
   remainingVariantQuotas |-> None,
   rngSeed |-> seed,
   tierIdToIndex |-> << >>,
   variantNameToTraitIndex |-> << >>]

Init ==
  /\ engine \in {[e \in Engines |-> NewEngine(seeds[e])] : seeds \in [Engines -> ConstructorSeeds]}
  /\ results = [e \in Engines |-> << >>]
  /\ thrown = [e \in Engines |-> ""]
  /\ validation = [e \in Engines |-> None]
  /\ draw = None
  /\ driver = NoDriver
  /\ contract = Deployed
  /\ callerConfig = [e \in Engines |-> engine[e].config]

(* ------------------------- loading a configuration --------------------- *)

\* The quota sums validateConfig compares with collectionSize.
TotalTierQuota(cfg) == SumSeq([k \in 1..Len(cfg.tiers) |-> cfg.tiers[k].quota])
TotalVariantQuota(cfg, t) ==
  SumSeq([v \in 1..Len(cfg.traits[t].variants) |-> cfg.traits[t].variants[v].quota])
SumsDisagree(cfg) ==
  \/ TotalTierQuota(cfg) # cfg.collectionSize
  \/ \E t \in 1..Len(cfg.traits) : TotalVariantQuota(cfg, t) # cfg.collectionSize

\* A validateConfig that throws where the code only warns.
validateConfigStrict(eng) ==
  IF IsNull(eng.config) THEN "Invalid rarity config: missing tiers or traits"
  ELSE LET cfg == Val(eng.config) IN
    IF ~HasProperty(cfg, "tiers") \/ ~HasProperty(cfg, "traits")
      THEN "Invalid rarity config: missing tiers or traits"
    ELSE IF SumsDisagree(cfg) THEN "Warning: total quota differs from collectionSize"
    ELSE IF Len(cfg.traits) # Len(expectedTraitNames) THEN "Expected traits"
    ELSE IF \E t \in 1..Len(cfg.traits) :
              cfg.traits[t].trait \notin {expectedTraitNames[n] : n \in 1..Len(expectedTraitNames)}
      THEN "Unexpected trait name"
    ELSE IF \E t \in 1..Len(cfg.traits) : Len(cfg.traits[t].variants) # NumVariants
      THEN "Trait must have exactly the expected number of variants"
    ELSE ""

\* validateConfig(): "" when the configuration is accepted, else the message of
\* the error it throws. The sums against collectionSize only warn.
validateConfig(eng) ==
  IF IsNull(eng.config) THEN "Invalid rarity config: missing tiers or traits"
  ELSE LET cfg == Val(eng.config) IN
    IF ~HasProperty(cfg, "tiers") \/ ~HasProperty(cfg, "traits")
      THEN "Invalid rarity config: missing tiers or traits"
    ELSE IF Len(cfg.traits) # Len(expectedTraitNames) THEN "Expected traits"
    ELSE IF \E t \in 1..Len(cfg.traits) :
              cfg.traits[t].trait \notin {expectedTraitNames[n] : n \in 1..Len(expectedTraitNames)}
      THEN "Unexpected trait name"
    ELSE IF \E t \in 1..Len(cfg.traits) : Len(cfg.traits[t].variants) # NumVariants
      THEN "Trait must have exactly the expected number of variants"
    ELSE ""

\* initializeQuotas(): the remaining counters are copies of the configured
\* tier and variant records.
initializeQuotas(eng) ==
  LET cfg == Val(eng.config) IN
  [eng EXCEPT !.remainingTierQuotas = Some(cfg.tiers),
              !.remainingVariantQuotas = Some(cfg.traits)]

RECURSIVE SetTierIndices(_, _, _)
SetTierIndices(map, tiers, i) ==
  IF i > Len(tiers) THEN map
  ELSE SetTierIndices((tiers[i].id :> i) @@ map, tiers, i + 1)

RECURSIVE SetVariantTraitIndices(_, _, _, _)
SetVariantTraitIndices(map, traits, t, v) ==
  IF t > Len(traits) THEN map
  ELSE IF v > Len(traits[t].variants) THEN SetVariantTraitIndices(map, traits, t + 1, 1)
  ELSE SetVariantTraitIndices((traits[t].variants[v].name :> t) @@ map, traits, t, v + 1)

\* buildLookupMaps(): Map.set overwrites, so the last tier with an id and the
\* last trait with a variant name win. The maps are never cleared.
buildLookupMaps(eng) ==
  LET cfg == Val(eng.config) IN
  [eng EXCEPT !.tierIdToIndex = SetTierIndices(@, cfg.tiers, 1),
              !.variantNameToTraitIndex = SetVariantTraitIndices(@, cfg.traits, 1, 1)]

\* loadConfig(configData): the deep clone is stored first, then validated.
loadConfig(eng, configData) ==
  LET cloned == [eng EXCEPT !.config = Some(configData)]
      err == validateConfig(cloned)
  IN IF err # "" THEN [eng |-> cloned, error |-> err]
     ELSE [eng |-> buildLookupMaps(initializeQuotas(cloned)), error |-> ""]

(* ------------------------- the seeded generator ------------------------ *)

\* seededRandom(): the new seed; the value returned is seed / LcgModulus.
\* The product seed * 9301 is exact in JavaScript; it is split here to stay inside
\* the 32-bit integers of the model checker: 9301 = 93 * 100 + 1.
seededRandom(seed) ==
  LET hundredth == LcgMultiplier \div 100
      rest == LcgMultiplier % 100
  IN ((((seed * hundredth) % LcgModulus) * 100) + seed * rest + LcgIncrement) % LcgModulus

\* The cumulative-weight draw of selectTierWeighted and selectVariantsForTier:
\*   random = (seed / LcgModulus) * totalWeight;
\*   for each candidate: random -= weight; if (random <= 0) take it.
\* With weights w1..wn and running sums c1..cn the i-th candidate is taken when
\* seed * totalWeight / LcgModulus <= ci, compared here without the division.
\* The result is 0 when the loop ends without taking a candidate.
RECURSIVE DrawFrom(_, _, _, _, _)
DrawFrom(weights, seed, total, i, sofar) ==
  IF i > Len(weights) THEN 0
  ELSE IF seed * total <= LcgModulus * (sofar + weights[i]) THEN i
  ELSE DrawFrom(weights, seed, total, i + 1, sofar + weights[i])

CumulativeDraw(weights, seed) == DrawFrom(weights, seed, SumSeq(weights), 1, 0)

(* ---------------------------- tier selection --------------------------- *)

\* The bell curve multiplier of selectTierWeighted, in tenths.
bellCurveMultiplier(tierId) ==
  CASE tierId \in {"T1", "T9"} -> 5
    [] tierId \in {"T2", "T8"} -> 7
    [] tierId \in {"T3", "T7"} -> 12
    [] tierId \in {"T4", "T6"} -> 18
    [] tierId = "T5" -> 25
    [] OTHER -> 10

\* weight: Math.floor(baseWeight * bellCurveMultiplier). The double product rounds
\* to the same integer as the exact one for every quota below 90.
TierWeight(tier) == (tier.quota * bellCurveMultiplier(tier.id)) \div 10

\* The filter of selectTierWeighted letting the exhausted tiers through.
IsTierNotOverdrawn(tier) == tier.quota >= 0

\* tier => tier.quota > 0
IsAvailableTier(tier) == tier.quota > 0

\* selectTierWeighted(): throws when no tier has quota left (before any draw),
\* else draws once and returns the id of the tier drawn.
selectTierWeighted(eng) ==
  IF IsNull(eng.remainingTierQuotas)
  THEN [eng |-> eng, error |-> "TypeError", tierId |-> ""]
  ELSE
    LET tiers == Val(eng.remainingTierQuotas)
        availableTiers == SelectSeq(Indices(tiers), LAMBDA i : IsAvailableTier(tiers[i]))
    IN IF Len(availableTiers) = 0
       THEN [eng |-> eng, error |-> "No available tiers with remaining quota", tierId |-> ""]
       ELSE
         LET weights == [k \in 1..Len(availableTiers) |-> TierWeight(tiers[availableTiers[k]])]
             seed == seededRandom(eng.rngSeed)
             drawn == CumulativeDraw(weights, seed)
             chosen == IF drawn = 0 THEN availableTiers[1] ELSE availableTiers[drawn]
         IN [eng |-> [eng EXCEPT !.rngSeed = seed], error |-> "", tierId |-> tiers[chosen].id]

(* --------------------------- variant selection ------------------------- *)

\* A candidate filter that forgets the tier.
IsVariantWithQuota(variant, targetTierId) == variant.quota > 0

\* A candidate filter that forgets the remaining quota.
IsVariantOfTier(variant, targetTierId) == variant.tier = targetTierId

IsAvailableVariant(variant, targetTierId) ==
  variant.tier = targetTierId /\ variant.quota > 0

\* One selected variant: item.variant is a reference to the variant record inside
\* remainingVariantQuotas, kept here as its position (traitIndex, variantIndex).
\* quotaWhenSelected records the counter the selector saw.
RECURSIVE SelectVariantsFrom(_, _, _, _)
SelectVariantsFrom(eng, targetTierId, t, selectedVariants) ==
  LET traits == Val(eng.remainingVariantQuotas) IN
  IF t > Len(traits) THEN [eng |-> eng, error |-> "", selectedVariants |-> selectedVariants]
  ELSE
    LET variants == traits[t].variants
        availableVariants ==
          SelectSeq(Indices(variants), LAMBDA v : IsAvailableVariant(variants[v], targetTierId))
    IN IF Len(availableVariants) = 0
       THEN [eng |-> eng, error |-> "No available variants for trait",
             selectedVariants |-> selectedVariants]
       ELSE
         LET weights == [k \in 1..Len(availableVariants) |-> variants[availableVariants[k]].quota]
             seed == seededRandom(eng.rngSeed)
             drawn == CumulativeDraw(weights, seed)
             chosen == IF drawn = 0 THEN availableVariants[1] ELSE availableVariants[drawn]
         IN SelectVariantsFrom([eng EXCEPT !.rngSeed = seed], targetTierId, t + 1,
              Append(selectedVariants,
                     [trait |-> traits[t].trait, traitIndex |-> t, variantIndex |-> chosen,
                      name |-> variants[chosen].name, points |-> variants[chosen].points,
                      quotaWhenSelected |-> variants[chosen].quota]))

\* selectVariantsForTier(targetTierId): one variant per trait, in trait order;
\* throws at the first trait with no available variant of the tier.
selectVariantsForTier(eng, targetTierId) ==
  IF IsNull(eng.remainingVariantQuotas)
  THEN [eng |-> eng, error |-> "TypeError", selectedVariants |-> << >>]
  ELSE SelectVariantsFrom(eng, targetTierId, 1, << >>)

(* ----------------------------- score validation ------------------------ *)

\* calculateScore(selectedVariants)
calculateScore(selectedVariants) ==
  SumSeq([i \in 1..Len(selectedVariants) |-> selectedVariants[i].points])

\* getTierById(tierId): the position of the first configured tier with the id,
\* 0 when the method throws: there is none ("Unknown tier ID"), or the stored
\* configuration has no tiers at all (this.config.tiers.find is a TypeError).
getTierById(eng, tierId) ==
  IF ~HasProperty(Val(eng.config), "tiers") THEN 0
  ELSE LET tiers == Val(eng.config).tiers
           found == SelectSeq(Indices(tiers), LAMBDA i : tiers[i].id = tierId)
       IN IF Len(found) = 0 THEN 0 ELSE found[1]

\* A range test that forgets the upper end of the range.
InRangeNoUpperEnd(score, scoreRange) == score >= scoreRange[1]

InRange(score, scoreRange) == score >= scoreRange[1] /\ score <= scoreRange[2]

\* isScoreInTierRange(score, tierId); the caller has checked getTierById.
isScoreInTierRange(eng, score, tierId) ==
  InRange(score, Val(eng.config).tiers[getTierById(eng, tierId)].scoreRange)

(* ------------------------------- commit -------------------------------- *)

\* The position of the first variant of the trait with the name (findIndex),
\* 0 when there is none.
FindVariantIndex(variants, name) ==
  LET found == SelectSeq(Indices(variants), LAMBDA v : variants[v].name = name)
  IN IF Len(found) = 0 THEN 0 ELSE found[1]

\* The trait whose counter decrementQuotas touches for a selected variant:
\* variantNameToTraitIndex.get(item.variant.name), 0 when the map has no entry.
TraitIndexOf(eng, item) ==
  IF item.name \in DOMAIN eng.variantNameToTraitIndex
  THEN eng.variantNameToTraitIndex[item.name] ELSE 0

RECURSIVE DecrementVariants(_, _, _)
DecrementVariants(eng, selectedVariants, i) ==
  IF i > Len(selectedVariants) THEN [eng |-> eng, error |-> ""]
  ELSE
    LET traitIndex == TraitIndexOf(eng, selectedVariants[i])
        traits == Val(eng.remainingVariantQuotas)
    IN IF traitIndex = 0 THEN [eng |-> eng, error |-> "TypeError"]
       ELSE LET variantIndex == FindVariantIndex(traits[traitIndex].variants,
                                                 selectedVariants[i].name)
            IN IF variantIndex = 0 THEN [eng |-> eng, error |-> "TypeError"]
               ELSE DecrementVariants(
                      [eng EXCEPT !.remainingVariantQuotas[1][traitIndex].variants[variantIndex].quota
                                     = @ - 1],
                      selectedVariants, i + 1)

\* decrementQuotas on counters that are the configuration's own tier objects: the
\* tier's configured quota goes down with its counter.
decrementQuotasOfConfig(eng, tierId, selectedVariants) ==
  IF tierId \notin DOMAIN eng.tierIdToIndex THEN [eng |-> eng, error |-> "TypeError"]
  ELSE DecrementVariants(
         [eng EXCEPT !.remainingTierQuotas[1][eng.tierIdToIndex[tierId]].quota = @ - 1,
                     !.config[1].tiers[eng.tierIdToIndex[tierId]].quota = @ - 1],
         selectedVariants, 1)

\* decrementQuotas(tierId, selectedVariants): the tier counter first, then one
\* variant counter per selected variant, each looked up by the variant's name.
decrementQuotas(eng, tierId, selectedVariants) ==
  IF tierId \notin DOMAIN eng.tierIdToIndex THEN [eng |-> eng, error |-> "TypeError"]
  ELSE DecrementVariants(
         [eng EXCEPT !.remainingTierQuotas[1][eng.tierIdToIndex[tierId]].quota = @ - 1],
         selectedVariants, 1)

(* ---------------------------- generateNFT ------------------------------ *)

Counters(eng) == << eng.remainingTierQuotas, eng.remainingVariantQuotas >>

NoResult ==
  [success |-> FALSE, tierId |-> "", tierName |-> "", score |-> 0,
   variants |-> << >>, attempts |-> 0, error |-> ""]

\* An attempt that decrements the quotas before it has checked the score.
AttemptDecrementsFirst(eng) ==
  LET drawn == selectTierWeighted(eng)
      picked == selectVariantsForTier(drawn.eng, drawn.tierId)
      totalScore == calculateScore(picked.selectedVariants)
      committed == decrementQuotas(picked.eng, drawn.tierId, picked.selectedVariants)
      inRange == isScoreInTierRange(picked.eng, totalScore, drawn.tierId)
  IN IF drawn.error # "" \/ picked.error # "" \/ committed.error # ""
     THEN [eng |-> IF drawn.error # "" THEN drawn.eng
                   ELSE IF picked.error # "" THEN picked.eng ELSE committed.eng,
           outcome |-> "error",
           error |-> IF drawn.error # "" THEN drawn.error
                     ELSE IF picked.error # "" THEN picked.error ELSE committed.error,
           tierId |-> drawn.tierId,
           selectedVariants |-> IF drawn.error # "" THEN << >> ELSE picked.selectedVariants,
           score |-> 0, tierName |-> ""]
     ELSE [eng |-> committed.eng,
           outcome |-> IF inRange THEN "committed" ELSE "out of range",
           error |-> "", tierId |-> drawn.tierId,
           selectedVariants |-> picked.selectedVariants, score |-> totalScore,
           tierName |-> IF inRange
                        THEN Val(eng.config).tiers[getTierById(eng, drawn.tierId)].name ELSE ""]

\* One pass through the body of the while loop, up to the return or the catch.
\* outcome: "committed" (the return of a success), "out of range" (the if fails),
\* "error" (something threw inside the try block).
Attempt(eng) ==
  LET drawn == selectTierWeighted(eng)
      picked == selectVariantsForTier(drawn.eng, drawn.tierId)
      totalScore == calculateScore(picked.selectedVariants)
      tierInfo == getTierById(picked.eng, drawn.tierId)
      committed == decrementQuotas(picked.eng, drawn.tierId, picked.selectedVariants)
      Failed(after, message, selected) ==
        [eng |-> after, outcome |-> "error", error |-> message, tierId |-> drawn.tierId,
         selectedVariants |-> selected, score |-> 0, tierName |-> ""]
  IN IF drawn.error # "" THEN Failed(drawn.eng, drawn.error, << >>)
     ELSE IF picked.error # "" THEN Failed(picked.eng, picked.error, picked.selectedVariants)
     ELSE IF tierInfo = 0 THEN Failed(picked.eng, "Unknown tier ID", picked.selectedVariants)
     ELSE IF ~isScoreInTierRange(picked.eng, totalScore, drawn.tierId)
       THEN [eng |-> picked.eng, outcome |-> "out of range", error |-> "",
             tierId |-> drawn.tierId, selectedVariants |-> picked.selectedVariants,
             score |-> totalScore, tierName |-> ""]
     ELSE IF committed.error # ""
       THEN Failed(committed.eng, committed.error, picked.selectedVariants)
     ELSE [eng |-> committed.eng, outcome |-> "committed", error |-> "",
           tierId |-> drawn.tierId, selectedVariants |-> picked.selectedVariants,
           score |-> totalScore,
           tierName |-> Val(committed.eng.config).tiers[tierInfo].name]

\* A catch clause that lets the exhaustion errors of the selectors through.
CatchesNoExhaustion(error) ==
  error \notin {"No available tiers with remaining quota", "No available variants for trait"}

\* catch (error): the clause has no filter, every error of the try block lands here.
Catches(error) == TRUE

\* What the attempt log keeps of one attempt; rngSeed is the seed the generator
\* holds when the attempt starts.
LogEntry(before, a) ==
  [outcome |-> a.outcome, error |-> a.error, tierId |-> a.tierId,
   selectedVariants |-> a.selectedVariants, score |-> a.score,
   countersChanged |-> Counters(a.eng) # Counters(before),
   rngSeed |-> before.rngSeed]

\* A loop condition that lets one attempt too many through.
WithinCeilingInclusive(attempts, maxRetries) == attempts <= maxRetries

\* while (attempts < maxRetries)
WithinCeiling(attempts, maxRetries) == attempts < maxRetries

\* while (attempts < maxRetries) { try { ... return success } catch { warn }; attempts++ }
\* return failure
RECURSIVE RetryLoop(_, _, _, _)
RetryLoop(eng, maxRetries, attempts, log) ==
  IF ~WithinCeiling(attempts, maxRetries)
  THEN [eng |-> eng, thrown |-> "", log |-> log,
        result |-> [NoResult EXCEPT !.attempts = attempts,
                                    !.error = "Failed to generate NFT after maxRetries attempts"]]
  ELSE
    LET a == Attempt(eng)
        entries == Append(log, LogEntry(eng, a))
    IN IF a.outcome = "committed"
       THEN [eng |-> a.eng, thrown |-> "", log |-> entries,
             result |-> [success |-> TRUE, tierId |-> a.tierId, tierName |-> a.tierName,
                         score |-> a.score, variants |-> a.selectedVariants,
                         attempts |-> attempts + 1, error |-> ""]]
       ELSE IF a.outcome = "error" /\ ~Catches(a.error)
       THEN [eng |-> a.eng, thrown |-> a.error, log |-> entries, result |-> NoResult]
       ELSE RetryLoop(a.eng, maxRetries, attempts + 1, entries)

\* generateNFT(maxRetries = 100)
generateNFT(eng, maxRetries) == RetryLoop(eng, maxRetries, 0, << >>)

(* ------------------------- completion validation ---------------------- *)

\* tiers.find(t => t.id === tierId): the first tier with the id (the callers
\* below have checked that there is one).
FindTier(tiers, tierId) ==
  tiers[CHOOSE c \in 1..Len(tiers) :
          /\ tiers[c].id = tierId
          /\ \A d \in 1..(c - 1) : tiers[d].id # tierId]

\* getGenerationStatus(): totalRemaining is the sum of the remaining tier
\* counters; the status also reads config.collectionSize and, for every remaining
\* tier, the configured tier with the same id (config.tiers.find(...).quota), which
\* throws a TypeError when the configuration has no such tier. tierStatus has one
\* entry per remaining tier counter, in order.
getGenerationStatus(eng) ==
  IF IsNull(eng.config) \/ IsNull(eng.remainingTierQuotas)
  THEN [error |-> "TypeError", totalRemaining |-> 0, tierStatus |-> << >>]
  ELSE
    LET tiers == Val(eng.remainingTierQuotas)
        cfg == Val(eng.config)
    IN IF \/ ~HasProperty(cfg, "tiers")
          \/ \E k \in 1..Len(tiers) : \A c \in 1..Len(cfg.tiers) : cfg.tiers[c].id # tiers[k].id
       THEN [error |-> "TypeError", totalRemaining |-> 0, tierStatus |-> << >>]
       ELSE [error |-> "",
             totalRemaining |-> SumSeq([k \in 1..Len(tiers) |-> tiers[k].quota]),
             tierStatus |-> [k \in 1..Len(tiers) |->
                               [id |-> tiers[k].id, name |-> tiers[k].name,
                                remaining |-> tiers[k].quota,
                                originalQuota |-> FindTier(cfg.tiers, tiers[k].id).quota]]]

\* What validateFinalGeneration hands back: returned is TRUE when it returned
\* true; otherwise error is the message it threw, and the other fields are what
\* the message carries: the count of "Generation incomplete: N NFTs remaining",
\* the tier ids of "Tiers with remaining quota: ...", the trait and the variant
\* names of "Trait X has variants with remaining quota: ...".
Validated(returned, error, count, tierIds, trait, variantNames) ==
  [returned |-> returned, error |-> error, count |-> count, tierIds |-> tierIds,
   trait |-> trait, variantNames |-> variantNames]

\* A counter counts as left over when it is above zero (filter: quota > 0).
HasQuotaLeft(counter) == counter.quota > 0

\* The loop over the traits: throws at the first trait with a variant left over.
RECURSIVE ValidateTraits(_, _)
ValidateTraits(traits, t) ==
  IF t > Len(traits) THEN Validated(TRUE, "", 0, << >>, "", << >>)
  ELSE
    LET variants == traits[t].variants
        nonZeroVariants == SelectSeq(Indices(variants), LAMBDA v : HasQuotaLeft(variants[v]))
    IN IF Len(nonZeroVariants) > 0
       THEN Validated(FALSE, "Trait has variants with remaining quota", 0, << >>, traits[t].trait,
                      [k \in 1..Len(nonZeroVariants) |-> variants[nonZeroVariants[k]].name])
       ELSE ValidateTraits(traits, t + 1)

\* validateFinalGeneration()
validateFinalGeneration(eng) ==
  LET status == getGenerationStatus(eng) IN
  IF status.error # "" THEN Validated(FALSE, status.error, 0, << >>, "", << >>)
  ELSE IF status.totalRemaining # 0
    THEN Validated(FALSE, "Generation incomplete", status.totalRemaining, << >>, "", << >>)
  ELSE
    LET tiers == Val(eng.remainingTierQuotas)
        nonZeroTiers == SelectSeq(Indices(tiers), LAMBDA k : HasQuotaLeft(tiers[k]))
    IN IF Len(nonZeroTiers) > 0
       THEN Validated(FALSE, "Tiers with remaining quota", 0,
                      [k \in 1..Len(nonZeroTiers) |-> tiers[nonZeroTiers[k]].id], "", << >>)
       ELSE ValidateTraits(Val(eng.remainingVariantQuotas), 1)

(* ------------------------------ actions -------------------------------- *)

\* The retry ceilings the callers pass: the smallest that still makes an attempt,
\* and the largest of the model.
RetryChoices == {1, MaxRetries}

IsLoaded(e) == ~IsNull(engine[e].remainingTierQuotas)

\* engine e := new RarityEngine(); e.loadConfig(configData)
LoadConfig(e, configData) ==
  /\ IsNull(engine[e].config)
  /\ \E r \in {loadConfig(engine[e], configData)} :
        /\ engine' = [engine EXCEPT ![e] = r.eng]
        /\ thrown' = [thrown EXCEPT ![e] = r.error]
  /\ callerConfig' = [callerConfig EXCEPT ![e] = Some(configData)]
  /\ validation' = [validation EXCEPT ![e] = None]
  /\ UNCHANGED << results, draw, driver, contract >>

\* e.generateNFT(maxRetries)
GenerateNFT(e, maxRetries) ==
  /\ IsLoaded(e)
  /\ Len(results[e]) < MaxCalls
  /\ \E r \in {generateNFT(engine[e], maxRetries)} :
        /\ engine' = [engine EXCEPT ![e] = r.eng]
        /\ thrown' = [thrown EXCEPT ![e] = r.thrown]
        /\ results' = [results EXCEPT ![e] =
                         Append(@, [maxRetries |-> maxRetries, returned |-> r.thrown = "",
                                    result |-> r.result, log |-> r.log])]
  /\ validation' = [validation EXCEPT ![e] = None]
  /\ UNCHANGED outside

\* e.validateFinalGeneration(): reads the engine, changes nothing of it.
ValidateFinalGeneration(e) ==
  /\ IsLoaded(e)
  /\ IsNull(validation[e])
  /\ validation' = [validation EXCEPT ![e] = Some(validateFinalGeneration(engine[e]))]
  /\ UNCHANGED << engine, results, thrown, outside >>

\* e.loadConfig(configData) on an engine that was given a configuration before.
LoadConfigAgain(e, configData) ==
  /\ ~IsNull(engine[e].config)
  /\ \E r \in {loadConfig(engine[e], configData)} :
        /\ engine' = [engine EXCEPT ![e] = r.eng]
        /\ thrown' = [thrown EXCEPT ![e] = r.error]
  /\ callerConfig' = [callerConfig EXCEPT ![e] = Some(configData)]
  /\ validation' = [validation EXCEPT ![e] = None]
  /\ UNCHANGED << results, draw, driver, contract >>

\* One engine, driven by one caller.
Next ==
  \/ \E configData \in Configs : LoadConfig(1, configData)
  \/ \E maxRetries \in RetryChoices : GenerateNFT(1, maxRetries)
  \/ ValidateFinalGeneration(1)

Spec == Init /\ [][Next]_vars

\* Two engines, each constructed fresh: engine 1 leads, engine 2 is given the
\* same configuration and the same calls, one operation behind at most.
Operations(e) == (IF IsNull(engine[e].config) THEN 0 ELSE 1) + Len(results[e])

\* Engine 1 is given any configuration once engine 2 has caught up; engine 2 is
\* given the configuration engine 1 was given.
TwinLoads(e, configData) ==
  IF e = 1 THEN Operations(1) = Operations(2)
  ELSE /\ ~IsNull(engine[1].config)
       /\ configData = Val(engine[1].config)

\* Engine 1 is called with any ceiling once engine 2 has caught up; engine 2 is
\* called with the ceiling of engine 1's call at the same position.
TwinCalls(e, maxRetries) ==
  IF e = 1 THEN Operations(1) = Operations(2)
  ELSE /\ Len(results[2]) < Len(results[1])
       /\ maxRetries = results[1][Len(results[2]) + 1].maxRetries

NextTwin ==
  \/ \E e \in Engines, configData \in Configs :
        TwinLoads(e, configData) /\ LoadConfig(e, configData)
  \/ \E e \in Engines, maxRetries \in RetryChoices :
        TwinCalls(e, maxRetries) /\ GenerateNFT(e, maxRetries)

SpecTwin == Init /\ [][NextTwin]_vars

\* One engine whose caller loads configurations one after another, with
\* generateNFT calls in between. The configurations are the malformed ones, the
\* sample they are made from, and one with shared variant names and every quota
\* at its largest.
ReloadConfigs ==
  MalformedConfigs \cup
  {SampleConfig,
   MakeConfig([k \in 1..Len(TierIds) |-> MaxQuota], [kind \in Kinds |-> TierIds[kind]],
              [kind \in Kinds |-> MaxQuota], TRUE)}

NextReload ==
  \/ \E configData \in ReloadConfigs : LoadConfig(1, configData)
  \/ \E configData \in ReloadConfigs : LoadConfigAgain(1, configData)
  \/ GenerateNFT(1, MaxRetries)

SpecReload == Init /\ [][NextReload]_vars

\* One collection run split into two batches of token ids, each batch generated
\* by its own generator (generateNFTBatch in its own Lambda invocation, or
\* LocalNFTGenerator in its own process): every batch constructs an engine and
\* loads the one rarityConfig of the deployment, and calls generateNFT() once per
\* token id of its range. The ranges are disjoint and cover 1..collectionSize, so
\* the two batches make collectionSize calls between them at most.
BatchLoads(e, configData) ==
  e = 1 \/ (~IsNull(engine[1].config) /\ configData = Val(engine[1].config))

BatchCalls(e) ==
  /\ IsLoaded(1)
  /\ Len(results[1]) + Len(results[2]) < Val(engine[1].config).collectionSize

NextBatches ==
  \/ \E e \in Engines, configData \in Configs :
        BatchLoads(e, configData) /\ LoadConfig(e, configData)
  \/ \E e \in Engines : BatchCalls(e) /\ GenerateNFT(e, MaxRetries)

SpecBatches == Init /\ [][NextBatches]_vars

\* The generation drivers. "studio" is startRarityBasedCreating of Aside.js,
\* "local" is LocalNFTGenerator (constructor, generateBatch, run). Both own one
\* engine (engine 1 here), load one configuration and call generateNFT() with the
\* default ceiling once per pass of their loop.
DriverKinds == {"studio", "local"}
DriverConfigs == Configs

\* A file the driver writes: the image and the metadata file of one edition,
\* the aggregate metadata, the contract data and CSV, the generation summary.
File(what, id) == [what |-> what, id |-> id]

\* const rarityEngine = new RarityEngine(); rarityEngine.loadConfig(rarityConfig).
\* A throw lands in the outer catch of the studio driver, and ends the process
\* of the local one.
DriverStarts(kind, supply, configData) ==
  /\ driver.pc = "idle"
  /\ IsNull(engine[1].config)
  /\ \E r \in {loadConfig(engine[1], configData)} :
        /\ engine' = [engine EXCEPT ![1] = r.eng]
        /\ thrown' = [thrown EXCEPT ![1] = r.error]
        /\ driver' = [driver EXCEPT !.kind = kind, !.supply = supply,
                                     !.pc = IF r.error = "" THEN "loop" ELSE "done"]
  /\ callerConfig' = [callerConfig EXCEPT ![1] = Some(configData)]
  /\ UNCHANGED << results, validation, draw, contract >>

\* studio: while (editionCount <= props.config.supply && totalFailedAttempts < maxGlobalRetries)
\* local:  for (let tokenId = startId; tokenId <= endId; tokenId++), startId = 1
DriverLoops ==
  /\ driver.pc = "loop"
  /\ driver.kind = "studio" => driver.editionCount <= driver.supply /\ driver.failed < MaxGlobalRetries
  /\ driver.kind = "local" => driver.editionCount <= driver.supply

\* if (!this.stats.tierDistribution[tier]) this.stats.tierDistribution[tier] = 0;
\* this.stats.tierDistribution[tier]++
CountTier(tierDistribution, tier) ==
  IF tier \in DOMAIN tierDistribution
  THEN [tierDistribution EXCEPT ![tier] = @ + 1]
  ELSE (tier :> 1) @@ tierDistribution

\* One pass of the loop. rendered: whether mapping and rendering the layers of
\* the studio driver went through (they throw when a layer is not found), and
\* whether fs.writeFileSync of the local driver wrote the metadata file (it throws
\* when the file cannot be written). The local driver counts the tier before it
\* writes the file, and its catch counts the token as failed.
\* settled: whether the promises of loadLayerImg settle. loadLayerImg builds its
\* promise with an async executor: when loadImage rejects, or the mapped layer
\* has no selectedElement, the executor's own promise rejects and the promise
\* handed to Promise.all is never resolved or rejected, so the await of the
\* studio driver never returns.
DriverGenerates(rendered, settled) ==
  /\ DriverLoops
  /\ \E r \in {generateNFT(engine[1], MaxRetries)} :
        /\ engine' = [engine EXCEPT ![1] = r.eng]
        /\ thrown' = [thrown EXCEPT ![1] = r.thrown]
        /\ results' = [results EXCEPT ![1] =
                         Append(@, [maxRetries |-> MaxRetries, returned |-> r.thrown = "",
                                    result |-> r.result, log |-> r.log])]
        /\ driver' =
             IF driver.kind = "studio"
             THEN IF r.result.success /\ rendered /\ ~settled
                    THEN [driver EXCEPT !.pc = "awaiting"]
                  ELSE IF r.result.success /\ rendered
                    THEN [driver EXCEPT
                            !.emitted = @ \cup {File("image", driver.editionCount),
                                                File("item metadata", driver.editionCount)},
                            !.editionCount = @ + 1, !.success = @ + 1]
                  ELSE IF r.result.success
                    THEN [driver EXCEPT !.failed = @ + 1]
                  ELSE [driver EXCEPT
                          !.failed = @ + 1,
                          !.pc = IF driver.failed + 1 >= MaxGlobalRetries THEN "done" ELSE "loop"]
             ELSE IF r.result.success /\ rendered
                    THEN [driver EXCEPT
                            !.tierDistribution = CountTier(@, r.result.tierId),
                            !.emitted = @ \cup {File("item metadata", driver.editionCount)},
                            !.editionCount = @ + 1, !.success = @ + 1]
                  ELSE IF r.result.success
                    THEN [driver EXCEPT
                            !.tierDistribution = CountTier(@, r.result.tierId),
                            !.failed = @ + 1, !.editionCount = @ + 1]
                  ELSE [driver EXCEPT !.failed = @ + 1, !.editionCount = @ + 1]
  /\ validation' = [validation EXCEPT ![1] = None]
  /\ UNCHANGED << draw, contract, callerConfig >>

\* After the loop. studio: validateFinalGeneration() in a try block, then the
\* aggregate metadata and the contract files; the catch only sets a status.
\* local: generateReport() and saveSummary(), no call of the validator.
DriverFinishes ==
  /\ driver.pc = "loop"
  /\ ~DriverLoops
  /\ IF driver.kind = "studio"
     THEN \E v \in {validateFinalGeneration(engine[1])} :
            /\ validation' = [validation EXCEPT ![1] = Some(v)]
            /\ driver' = [driver EXCEPT
                            !.pc = "done", !.checks = @ + 1,
                            !.emitted = IF v.returned
                                        THEN @ \cup {File("aggregate metadata", 0),
                                                     File("contract data", 0), File("csv", 0)}
                                        ELSE @]
     ELSE /\ driver' = [driver EXCEPT !.pc = "done",
                                      !.emitted = @ \cup {File("generation summary", 0)}]
          /\ UNCHANGED validation
  /\ UNCHANGED << engine, results, thrown, draw, contract, callerConfig >>

NextDrivers ==
  \/ \E kind \in DriverKinds, supply \in 1..MaxSupply, configData \in DriverConfigs :
        DriverStarts(kind, supply, configData)
  \/ \E rendered \in BOOLEAN, settled \in BOOLEAN : DriverGenerates(rendered, settled)
  \/ DriverFinishes

SpecDrivers == Init /\ [][NextDrivers]_vars

\* selectTierWeighted() called on an engine in the middle of a run: the tier
\* counters are anything from 0 to the largest quota, the tiers are any two of the
\* nine in either order, and the generator stands before any of a few draws.
AllTierIds == << "T1", "T2", "T3", "T4", "T5", "T6", "T7", "T8", "T9" >>

\* The values seededRandom returns next, as numerators over LcgModulus: the two
\* ends of the range, and values around the shares of the tier weights.
DrawValues ==
  {0, 1, LcgModulus \div 10, LcgModulus \div 6, (LcgModulus \div 6) + 1, LcgModulus \div 3,
   LcgModulus \div 2, (7 * LcgModulus) \div 10, (9 * LcgModulus) \div 10, LcgModulus - 1}

\* The seed the generator holds before it returns the value: the generator
\* runs through every residue, so every one of them occurs.
SeedBefore(value) == CHOOSE seed \in 0..(LcgModulus - 1) : seededRandom(seed) = value
DrawSeeds == {SeedBefore(value) : value \in DrawValues}

DrawConfig(first, second, quotas) ==
  [SampleConfig EXCEPT
     !.collectionSize = SumSeq(quotas),
     !.tiers = [k \in 1..2 |->
                  [id |-> AllTierIds[IF k = 1 THEN first ELSE second],
                   name |-> AllTierIds[IF k = 1 THEN first ELSE second],
                   quota |-> quotas[k],
                   scoreRange |-> << LowestScore, HighestScore >>]]]

DrawEngines ==
  {[loadConfig(NewEngine(InitialSeed), DrawConfig(first, second, quotas)).eng
      EXCEPT !.rngSeed = seed] :
     first \in 1..Len(AllTierIds), second \in 1..Len(AllTierIds),
     quotas \in [1..2 -> 0..MaxQuota], seed \in DrawSeeds}

InitDraw ==
  /\ engine \in {[e \in Engines |-> IF e = 1 THEN eng ELSE NewEngine(InitialSeed)] :
                   eng \in {d \in DrawEngines :
                              Val(d.config).tiers[1].id # Val(d.config).tiers[2].id}}
  /\ results = [e \in Engines |-> << >>]
  /\ thrown = [e \in Engines |-> ""]
  /\ validation = [e \in Engines |-> None]
  /\ draw = None
  /\ driver = NoDriver
  /\ contract = Deployed
  /\ callerConfig = [e \in Engines |-> engine[e].config]

\* engine e: this.selectTierWeighted()
SelectTierWeighted(e) ==
  /\ IsNull(draw)
  /\ \E r \in {selectTierWeighted(engine[e])} :
        /\ engine' = [engine EXCEPT ![e] = r.eng]
        /\ draw' = Some([tierId |-> r.tierId, error |-> r.error])
  /\ UNCHANGED << results, thrown, validation, driver, contract, callerConfig >>

NextDraw == SelectTierWeighted(1)

SpecDraw == InitDraw /\ [][NextDraw]_vars

(* ------------------------------ RarityNFT ------------------------------ *)

\* The accounts that send transactions: the owner, who deployed the contract,
\* and another one.
Senders == {"owner", "other"}

\* totalSupply() of ERC721Enumerable: the number of tokens minted (none can be burned).
totalSupply(c) == c.allTokens

\* A transaction that reverts: the storage is what it was before the call.
Revert(c, reason) == [c EXCEPT !.reverted = reason]

\* socksPoints + shoesPoints + pantsPoints + shirtPoints + facePoints + hatPoints
\* in uint8, left to right, in checked arithmetic: the sum, or -1 when a partial
\* sum passes the largest uint8 and the transaction panics.
RECURSIVE CheckedSum(_, _)
CheckedSum(points, sum) ==
  IF Len(points) = 0 THEN sum
  ELSE IF sum + Head(points) > MaxUint8 THEN -1
  ELSE CheckedSum(Tail(points), sum + Head(points))

\* The range check without its second comparison.
InTierRangeWithoutMax(tier, totalPoints) ==
  totalPoints >= tierScoreRanges[tier + 1][1]

\* totalPoints >= tierScoreRanges[uint8(tier)][0] && totalPoints <= tierScoreRanges[uint8(tier)][1]
InTierRange(tier, totalPoints) ==
  /\ totalPoints >= tierScoreRanges[tier + 1][1]
  /\ totalPoints <= tierScoreRanges[tier + 1][2]

\* struct RarityData, the six trait points as a list in the order of the fields.
RarityData(tier, totalPoints, points) ==
  [tier |-> tier, totalPoints |-> totalPoints, points |-> points]

\* The body of the mint functions with a _safeMint that does not count the token.
MintedUncounted(c, data) ==
  [c EXCEPT !.tokenIdCounter = @ + 1, !.tierMinted[data.tier] = @ + 1,
            !.tokenRarity = @ \cup {data}]

\* The body of both mint functions after their checks: the counter hands out
\* the token id, tierMinted[tier]++, the data are stored, _safeMint appends the
\* token.
Minted(c, data) ==
  [c EXCEPT !.tokenIdCounter = @ + 1, !.tierMinted[data.tier] = @ + 1,
            !.tokenRarity = @ \cup {data}, !.allTokens = @ + 1]

\* mintRarityNFT with its second require taken out.
mintRarityNFTWithoutQuota(c, sender, tier, totalPoints, points) ==
  IF sender # "owner" THEN Revert(c, "Ownable: caller is not the owner")
  ELSE IF ~(totalSupply(c) < MAX_SUPPLY(c.tierQuotas)) THEN Revert(c, "Max supply reached")
  ELSE IF CheckedSum(points, 0) < 0 THEN Revert(c, "Panic(0x11)")
  ELSE IF totalPoints # CheckedSum(points, 0) THEN Revert(c, "Invalid point total")
  ELSE IF ~InTierRange(tier, totalPoints) THEN Revert(c, "Points not in tier range")
  ELSE [Minted(c, RarityData(tier, totalPoints, points)) EXCEPT !.reverted = ""]

\* mintRarityNFT(to, tier, totalPoints, socksPoints, ..., hatPoints, tokenURI)
\* onlyOwner; points are the six trait points in the order of the parameters.
mintRarityNFT(c, sender, tier, totalPoints, points) ==
  IF sender # "owner" THEN Revert(c, "Ownable: caller is not the owner")
  ELSE IF ~(totalSupply(c) < MAX_SUPPLY(c.tierQuotas)) THEN Revert(c, "Max supply reached")
  ELSE IF ~(c.tierMinted[tier] < c.tierSupply[tier]) THEN Revert(c, "Tier quota exceeded")
  ELSE IF CheckedSum(points, 0) < 0 THEN Revert(c, "Panic(0x11)")
  ELSE IF totalPoints # CheckedSum(points, 0) THEN Revert(c, "Invalid point total")
  ELSE IF ~InTierRange(tier, totalPoints) THEN Revert(c, "Points not in tier range")
  ELSE [Minted(c, RarityData(tier, totalPoints, points)) EXCEPT !.reverted = ""]

\* for (uint256 i = 0; i < rarityDataArray.length; i++) of batchMintRarityNFTs,
\* from item i on: the storage after the last item, or the reason of the first
\* require that fails.
RECURSIVE MintEach(_, _, _)
MintEach(c, rarityDataArray, i) ==
  IF i > Len(rarityDataArray) THEN c
  ELSE IF ~(c.tierMinted[rarityDataArray[i].tier] < c.tierSupply[rarityDataArray[i].tier])
       THEN [c EXCEPT !.reverted = "Tier quota exceeded"]
  ELSE IF ~InTierRange(rarityDataArray[i].tier, rarityDataArray[i].totalPoints)
       THEN [c EXCEPT !.reverted = "Points not in tier range"]
  ELSE MintEach(Minted(c, rarityDataArray[i]), rarityDataArray, i + 1)

\* batchMintRarityNFTs(to, rarityDataArray, tokenURIs) onlyOwner; tokenURIs is
\* the length of the array of that name.
batchMintRarityNFTs(c, sender, rarityDataArray, tokenURIs) ==
  IF sender # "owner" THEN Revert(c, "Ownable: caller is not the owner")
  ELSE IF Len(rarityDataArray) # tokenURIs THEN Revert(c, "Array length mismatch")
  ELSE IF ~(totalSupply(c) + Len(rarityDataArray) <= MAX_SUPPLY(c.tierQuotas)) THEN Revert(c, "Exceeds max supply")
  ELSE LET after == MintEach([c EXCEPT !.reverted = ""], rarityDataArray, 1)
       IN  IF after.reverted # "" THEN Revert(c, after.reverted) ELSE after

\* The six trait points a caller passes for a token of the tier: six equal
\* ones that sum to the low end of the tier's range.
PointsOf(tier) == [k \in 1..6 |-> tierScoreRanges[tier + 1][1] \div 6]

\* The mintRarityNFT transactions sent: any tier, with the trait points of that
\* tier or of the next one, and their sum or one more as totalPoints.
MintCalls ==
  {[function |-> "mintRarityNFT", sender |-> sender, tier |-> tier,
    totalPoints |-> SumSeq(PointsOf((tier + next) % Len(tierNames))) + more,
    points |-> PointsOf((tier + next) % Len(tierNames))] :
     sender \in Senders, tier \in RarityTier, next \in {0, 1}, more \in {0, 1}}

\* The tiers of the items of a batch: the middle and the last one.
BatchTiers == {Len(tierNames) \div 2, Len(tierNames) - 1}

\* The RarityData items of a batch: with totalPoints at the low end of the
\* range of their tier and trait points that sum to it; with totalPoints just
\* above the high end of the range; with trait points of the first tier.
BatchItems ==
  {RarityData(tier, tierScoreRanges[tier + 1][1], PointsOf(tier)) : tier \in BatchTiers}
  \cup
  {RarityData(tier, tierScoreRanges[tier + 1][2] + 1, PointsOf(tier)) : tier \in BatchTiers}
  \cup
  {RarityData(tier, tierScoreRanges[tier + 1][1], PointsOf(0)) : tier \in BatchTiers}

ArraysUpTo(n) == UNION {[1..k -> BatchItems] : k \in 0..n}

BatchCall(sender, rarityDataArray, tokenURIs) ==
  [function |-> "batchMintRarityNFTs", sender |-> sender,
   rarityDataArray |-> rarityDataArray, tokenURIs |-> tokenURIs]

\* The batchMintRarityNFTs transactions sent: the owner's with as many URIs as
\* items, and short ones from either account with or without one URI too many.
BatchMintCalls ==
  {BatchCall("owner", rarityDataArray, Len(rarityDataArray)) :
     rarityDataArray \in ArraysUpTo(MaxBatch)}
  \cup
  {BatchCall(sender, rarityDataArray, Len(rarityDataArray) + more) :
     sender \in Senders, rarityDataArray \in ArraysUpTo(1), more \in {0, 1}}

\* An account sends a transaction to the contract.
Sends(call) ==
  /\ IsNull(contract.pending)
  /\ contract' = [contract EXCEPT !.pending = Some(call), !.reverted = "", !.returned = None]
  /\ UNCHANGED << engine, results, thrown, validation, draw, driver, callerConfig >>

\* The contract executes a pending mintRarityNFT transaction.
MintRarityNFT ==
  /\ ~IsNull(contract.pending)
  /\ Val(contract.pending).function = "mintRarityNFT"
  /\ \E call \in {Val(contract.pending)} :
        contract' = mintRarityNFT([contract EXCEPT !.pending = None], call.sender,
                                  call.tier, call.totalPoints, call.points)
  /\ UNCHANGED << engine, results, thrown, validation, draw, driver, callerConfig >>

\* The contract executes a pending batchMintRarityNFTs transaction.
BatchMintRarityNFTs ==
  /\ ~IsNull(contract.pending)
  /\ Val(contract.pending).function = "batchMintRarityNFTs"
  /\ \E call \in {Val(contract.pending)} :
        contract' = batchMintRarityNFTs([contract EXCEPT !.pending = None], call.sender,
                                        call.rarityDataArray, call.tokenURIs)
  /\ UNCHANGED << engine, results, thrown, validation, draw, driver, callerConfig >>

NextContract ==
  \/ \E call \in MintCalls \cup BatchMintCalls : Sends(call)
  \/ MintRarityNFT
  \/ BatchMintRarityNFTs

SpecContract == Init /\ [][NextContract]_vars

\* The contract with the quotas the source writes.
InitSource ==
  /\ engine \in {[e \in Engines |-> NewEngine(seeds[e])] : seeds \in [Engines -> ConstructorSeeds]}
  /\ results = [e \in Engines |-> << >>]
  /\ thrown = [e \in Engines |-> ""]
  /\ validation = [e \in Engines |-> None]
  /\ draw = None
  /\ driver = NoDriver
  /\ contract = DeployedWith(SourceTierQuotas)
  /\ callerConfig = [e \in Engines |-> None]

\* getTierStats(tier): the values returned, or the reason of the revert. The
\* arithmetic is that of uint16, checked: a difference below 0 or a product
\* above the largest uint16 panics. uint8(...) keeps the low eight bits.
getTierStats(c, tier) ==
  IF c.tierQuotas[tier + 1] - c.tierMinted[tier] < 0 THEN [reverted |-> "Panic(0x11)"]
  ELSE IF c.tierQuotas[tier + 1] * 100 > MaxUint16 THEN [reverted |-> "Panic(0x11)"]
  ELSE [reverted |-> "",
        name |-> tierNames[tier + 1],
        quota |-> c.tierQuotas[tier + 1],
        minted |-> c.tierMinted[tier],
        remaining |-> c.tierQuotas[tier + 1] - c.tierMinted[tier],
        percentOfCollection |-> ((c.tierQuotas[tier + 1] * 100) \div 10000) % (MaxUint8 + 1)]

\* remainingSupply(): MAX_SUPPLY - totalSupply() in checked arithmetic, -1 when
\* the difference is below 0 and the call panics.
remainingSupply(c) ==
  IF MAX_SUPPLY(c.tierQuotas) - totalSupply(c) < 0 THEN -1
  ELSE MAX_SUPPLY(c.tierQuotas) - totalSupply(c)

\* isMintingComplete()
isMintingComplete(c) == totalSupply(c) = MAX_SUPPLY(c.tierQuotas)

\* An account calls getTierStats(tier).
GetTierStats(tier) ==
  /\ IsNull(contract.pending)
  /\ \E r \in {getTierStats(contract, tier)} :
        contract' = [contract EXCEPT
                       !.reverted = r.reverted,
                       !.returned = Some([function |-> "getTierStats", tier |-> tier,
                                          values |-> r])]
  /\ UNCHANGED << engine, results, thrown, validation, draw, driver, callerConfig >>

\* A few mints, and the statistics read between them.
NextStats ==
  \/ \E call \in MintCalls \cup BatchMintCalls :
        /\ contract.allTokens < MaxMinted
        /\ Sends(call)
  \/ MintRarityNFT
  \/ BatchMintRarityNFTs
  \/ \E tier \in RarityTier : GetTierStats(tier)

SpecStats == InitSource /\ [][NextStats]_vars

(* --------------------------- observations ------------------------------ *)

ConfigOf(e) == Val(engine[e].config)
RemainingTier(e, k) == Val(engine[e].remainingTierQuotas)[k].quota
RemainingVariant(e, t, v) == Val(engine[e].remainingVariantQuotas)[t].variants[v].quota
TierPositions(e) == 1..Len(ConfigOf(e).tiers)
TraitPositions(e) == 1..Len(ConfigOf(e).traits)
VariantPositions(e, t) == 1..Len(ConfigOf(e).traits[t].variants)

CallPositions(e) == 1..Len(results[e])
Succeeded(e, i) == results[e][i].returned /\ results[e][i].result.success

\* The configured points of the variants a result lists, summed.
ConfiguredPoints(e, variants) ==
  SumSeq([j \in 1..Len(variants) |->
            ConfigOf(e).traits[variants[j].traitIndex].variants[variants[j].variantIndex].points])

\* How many successful results of e are of the tier at position k, and how many
\* list the variant at position v of trait t.
CommittedOfTier(e, k) ==
  Cardinality({i \in CallPositions(e) :
                 Succeeded(e, i) /\ results[e][i].result.tierId = ConfigOf(e).tiers[k].id})
CommittedOfVariant(e, t, v) ==
  Cardinality({i \in CallPositions(e) :
                 /\ Succeeded(e, i)
                 /\ \E j \in 1..Len(results[e][i].result.variants) :
                      /\ results[e][i].result.variants[j].traitIndex = t
                      /\ results[e][i].result.variants[j].variantIndex = v})

AllCountersZero(e) ==
  /\ \A k \in TierPositions(e) : RemainingTier(e, k) = 0
  /\ \A t \in TraitPositions(e) : \A v \in VariantPositions(e, t) : RemainingVariant(e, t, v) = 0

(* ------------------------------ claims --------------------------------- *)

\* C1: every successful result carries the sum of the configured points of the
\* variants it lists as its score, and that score lies inside the inclusive score
\* range of the result's tier; for a tier with range [X, X] the points sum to X.
C1_ScoreInTierRange ==
  \A e \in Engines : \A i \in CallPositions(e) :
    Succeeded(e, i) =>
      LET r == results[e][i].result
          sum == ConfiguredPoints(e, r.variants)
      IN /\ r.score = sum
         /\ \E k \in TierPositions(e) : ConfigOf(e).tiers[k].id = r.tierId
         /\ \A k \in TierPositions(e) :
              ConfigOf(e).tiers[k].id = r.tierId =>
                /\ ConfigOf(e).tiers[k].scoreRange[1] <= r.score
                /\ r.score <= ConfigOf(e).tiers[k].scoreRange[2]
                /\ ConfigOf(e).tiers[k].name = r.tierName
                /\ (ConfigOf(e).tiers[k].scoreRange[1] = ConfigOf(e).tiers[k].scoreRange[2]
                      => sum = ConfigOf(e).tiers[k].scoreRange[1])

\* C1 witness: a call that committed an item of the single-score tier after an
\* attempt of the same call was rejected for a score out of range.
C1_Witness ==
  \E i \in CallPositions(1) :
    /\ Succeeded(1, i)
    /\ results[1][i].result.tierId = TierIds[1]
    /\ results[1][i].result.score = LowestScore
    /\ \E a \in 1..Len(results[1][i].log) : results[1][i].log[a].outcome = "out of range"

\* The run of C2: as many calls as the configured population, all successful,
\* in a configuration whose tier quotas and whose variant quotas of every trait
\* sum to that population.
QuotaSumsAgree(e) ==
  LET cfg == ConfigOf(e) IN
  /\ SumSeq([k \in 1..Len(cfg.tiers) |-> cfg.tiers[k].quota]) = cfg.collectionSize
  /\ \A t \in 1..Len(cfg.traits) :
       SumSeq([v \in 1..Len(cfg.traits[t].variants) |-> cfg.traits[t].variants[v].quota])
         = cfg.collectionSize
FullSuccessfulRun(e) ==
  /\ IsLoaded(e)
  /\ QuotaSumsAgree(e)
  /\ Len(results[e]) = ConfigOf(e).collectionSize
  /\ \A i \in CallPositions(e) : Succeeded(e, i)

\* C2: after a full successful run the committed items of every tier number the
\* tier's quota, the committed uses of every variant number the variant's quota,
\* and every remaining counter is 0.
C2_FullRunMeetsQuotas ==
  \A e \in Engines :
    FullSuccessfulRun(e) =>
      /\ \A k \in TierPositions(e) : CommittedOfTier(e, k) = ConfigOf(e).tiers[k].quota
      /\ \A t \in TraitPositions(e) : \A v \in VariantPositions(e, t) :
           CommittedOfVariant(e, t, v) = ConfigOf(e).traits[t].variants[v].quota
      /\ AllCountersZero(e)

\* C3: every variant an attempt selected had a remaining quota above 0 when the
\* selector took it.
C3_SelectedVariantHasQuota ==
  \A e \in Engines : \A i \in CallPositions(e) : \A a \in 1..Len(results[e][i].log) :
    \A j \in 1..Len(results[e][i].log[a].selectedVariants) :
      results[e][i].log[a].selectedVariants[j].quotaWhenSelected > 0

\* C3 witness: an attempt selected a variant with one use left in a trait where
\* another variant of the same tier has no quota at all.
C3_Witness ==
  \E i \in CallPositions(1) : \E a \in 1..Len(results[1][i].log) :
    \E j \in 1..Len(results[1][i].log[a].selectedVariants) :
      LET item == results[1][i].log[a].selectedVariants[j]
          variants == ConfigOf(1).traits[item.traitIndex].variants
      IN /\ item.quotaWhenSelected = 1
         /\ \E v \in 1..Len(variants) :
              /\ v # item.variantIndex
              /\ variants[v].tier = variants[item.variantIndex].tier
              /\ RemainingVariant(1, item.traitIndex, v) <= 0

\* C4: no remaining tier counter and no remaining variant counter is below 0.
C4_CountersNeverNegative ==
  \A e \in Engines :
    IsLoaded(e) =>
      /\ \A k \in TierPositions(e) : RemainingTier(e, k) >= 0
      /\ \A t \in TraitPositions(e) : \A v \in VariantPositions(e, t) :
           RemainingVariant(e, t, v) >= 0

\* The call that a step of engine e appends to its results, and what it did.
NewCall(e) == results'[e][Len(results'[e])]
CallReturns(e) == IsLoaded(e) /\ Len(results'[e]) = Len(results[e]) + 1
TierQuotaIn(eng, k) == Val(eng.remainingTierQuotas)[k].quota
VariantQuotaIn(eng, t, v) == Val(eng.remainingVariantQuotas)[t].variants[v].quota
Lists(variants, t, v) ==
  \E j \in 1..Len(variants) : variants[j].traitIndex = t /\ variants[j].variantIndex = v

\* C5: a successful generateNFT call takes 1 from the counter of the chosen tier
\* and 1 from the counter of the variant chosen in each trait, the variant at the
\* chosen position of that trait, and leaves every other counter as it was.
C5_CommitDecrementsChosen ==
  [][\A e \in Engines :
       (CallReturns(e) /\ NewCall(e).result.success) =>
         /\ \A k \in TierPositions(e) :
              TierQuotaIn(engine'[e], k) =
                TierQuotaIn(engine[e], k)
                  - (IF ConfigOf(e).tiers[k].id = NewCall(e).result.tierId THEN 1 ELSE 0)
         /\ \A t \in TraitPositions(e) : \A v \in VariantPositions(e, t) :
              VariantQuotaIn(engine'[e], t, v) =
                VariantQuotaIn(engine[e], t, v)
                  - (IF Lists(NewCall(e).result.variants, t, v) THEN 1 ELSE 0)]_vars

\* C6: an attempt that is not the committed one leaves every counter as it was,
\* and so does a call that returns a failure; only the committed attempt, the
\* last of a successful call, changes counters.
C6_FailuresLeaveCounters ==
  [][\A e \in Engines :
       CallReturns(e) =>
         /\ \A a \in 1..Len(NewCall(e).log) :
              NewCall(e).log[a].countersChanged =>
                /\ NewCall(e).log[a].outcome = "committed"
                /\ a = Len(NewCall(e).log)
                /\ NewCall(e).result.success
         /\ (~NewCall(e).result.success => Counters(engine'[e]) = Counters(engine[e]))]_vars

\* C6 witness: a run with a committed call, an attempt rejected for a score out
\* of range, an attempt that met an exhausted trait, and a call that returned a
\* failure.
C6_Witness ==
  /\ \E i \in CallPositions(1) : Succeeded(1, i)
  /\ \E i \in CallPositions(1) : ~results[1][i].result.success
  /\ \E i \in CallPositions(1) : \E a \in 1..Len(results[1][i].log) :
       results[1][i].log[a].outcome = "out of range"
  /\ \E i \in CallPositions(1) : \E a \in 1..Len(results[1][i].log) :
       results[1][i].log[a].error = "No available variants for trait"

\* C7: a call makes at most maxRetries attempts; a success reports the number k
\* of the committed attempt, the last one made, after k - 1 failed ones; a
\* failure reports maxRetries attempts, none of them committed.
C7_AttemptsWithinCeiling ==
  \A e \in Engines : \A i \in CallPositions(e) :
    LET c == results[e][i]
        made == Len(c.log)
    IN /\ c.returned
       /\ made <= c.maxRetries
       /\ c.result.attempts = made
       /\ \A a \in 1..(made - 1) : c.log[a].outcome # "committed"
       /\ (c.result.success => made >= 1 /\ c.log[made].outcome = "committed")
       /\ (~c.result.success =>
             /\ made = c.maxRetries
             /\ \A a \in 1..made : c.log[a].outcome # "committed")

\* C7 witness: one call committed on its last permitted attempt, another used
\* up the largest ceiling without a commit.
C7_Witness ==
  /\ \E i \in CallPositions(1) :
       /\ Succeeded(1, i)
       /\ results[1][i].maxRetries = MaxRetries
       /\ results[1][i].result.attempts = MaxRetries
  /\ \E i \in CallPositions(1) :
       /\ ~results[1][i].result.success
       /\ results[1][i].maxRetries = MaxRetries
       /\ results[1][i].result.attempts = MaxRetries

\* C8: generateNFT throws nothing to its caller; every tier exhaustion, trait
\* exhaustion and score out of range is one attempt of the count; a call that
\* reaches the ceiling returns success = false with an error message.
C8_NeverThrows ==
  \A e \in Engines :
    /\ (Len(results[e]) > 0 => thrown[e] = "")
    /\ \A i \in CallPositions(e) :
         LET c == results[e][i] IN
         /\ c.returned
         /\ c.result.attempts = Len(c.log)
         /\ (~c.result.success =>
               /\ c.result.error # ""
               /\ c.result.attempts = c.maxRetries
               /\ \A a \in 1..Len(c.log) : c.log[a].outcome \in {"error", "out of range"})

\* C8 witness: a call returned a failure at the largest ceiling with every tier
\* exhausted, in a run where attempts also met an exhausted trait or a score out
\* of range.
C8_Witness ==
  /\ \E i \in CallPositions(1) :
       /\ results[1][i].returned /\ ~results[1][i].result.success
       /\ results[1][i].maxRetries = MaxRetries
       /\ \A a \in 1..Len(results[1][i].log) :
            results[1][i].log[a].error = "No available tiers with remaining quota"
  /\ \E i \in CallPositions(1) : \E a \in 1..Len(results[1][i].log) :
       results[1][i].log[a].outcome = "out of range"

CombinationInRange(e, k) ==
  LET cfg == ConfigOf(e) IN
  \E pick \in [TraitPositions(e) -> 1..NumVariants] :
    /\ \A t \in TraitPositions(e) : cfg.traits[t].variants[pick[t]].tier = cfg.tiers[k].id
    /\ LET sum == SumSeq([t \in 1..Len(cfg.traits) |-> cfg.traits[t].variants[pick[t]].points])
       IN cfg.tiers[k].scoreRange[1] <= sum /\ sum <= cfg.tiers[k].scoreRange[2]
UsesOfTierInTrait(e, k, t) ==
  LET cfg == ConfigOf(e) IN
  SumSeq([v \in 1..Len(cfg.traits[t].variants) |->
            IF cfg.traits[t].variants[v].tier = cfg.tiers[k].id
            THEN cfg.traits[t].variants[v].quota ELSE 0])
Feasible(e) ==
  /\ QuotaSumsAgree(e)
  /\ \A k \in TierPositions(e) :
       /\ CombinationInRange(e, k)
       /\ \A t \in TraitPositions(e) : UsesOfTierInTrait(e, k, t) = ConfigOf(e).tiers[k].quota

\* C10: a full run of N calls on a feasible configuration ends with no failed
\* call and every tier and variant counter at zero.
C10_FeasibleRunCompletes ==
  \A e \in Engines :
    (IsLoaded(e) /\ Feasible(e) /\ Len(results[e]) = ConfigOf(e).collectionSize) =>
      /\ \A i \in CallPositions(e) : Succeeded(e, i)
      /\ AllCountersZero(e)

\* The outcome of a validateFinalGeneration call made in the present state of e.
WasValidated(e) == ~IsNull(validation[e])
ValidationOf(e) == Val(validation[e])
CounterPositions(e) ==
  {<< t, v >> : t \in 1..Len(Val(engine[e].remainingVariantQuotas)),
                v \in 1..NumVariants}
NamedVariants(e) ==
  {<< ValidationOf(e).trait, ValidationOf(e).variantNames[n] >> :
      n \in 1..Len(ValidationOf(e).variantNames)}
NamedTiers(e) == {ValidationOf(e).tierIds[n] : n \in 1..Len(ValidationOf(e).tierIds)}
NameOfCounter(e, t, v) ==
  << Val(engine[e].remainingVariantQuotas)[t].trait,
     Val(engine[e].remainingVariantQuotas)[t].variants[v].name >>

\* C11: whenever validateFinalGeneration is called while some variant has
\* remaining quota 1, it throws, and the message names that variant, whatever
\* the tier counters are.
C11_ValidatorNamesVariantLeft ==
  \A e \in Engines :
    WasValidated(e) =>
      \A p \in CounterPositions(e) :
        RemainingVariant(e, p[1], p[2]) = 1 =>
          /\ ~ValidationOf(e).returned
          /\ NameOfCounter(e, p[1], p[2]) \in NamedVariants(e)

\* C12: validateFinalGeneration returns true exactly when every remaining tier
\* counter and every remaining variant counter is 0; otherwise it throws and the
\* error lists every tier and every variant whose remaining counter is not 0.
C12_ValidatorTrueIffAllZero ==
  \A e \in Engines :
    WasValidated(e) =>
      /\ ValidationOf(e).returned <=> AllCountersZero(e)
      /\ ~ValidationOf(e).returned =>
            /\ \A k \in TierPositions(e) :
                 RemainingTier(e, k) # 0 => ConfigOf(e).tiers[k].id \in NamedTiers(e)
            /\ \A p \in CounterPositions(e) :
                 RemainingVariant(e, p[1], p[2]) # 0 =>
                   NameOfCounter(e, p[1], p[2]) \in NamedVariants(e)

\* C13: loadConfig fails whenever the tiers list or the traits list of the
\* configuration is missing or empty: such a configuration never leaves an
\* engine with initialized quota state.
ListMissingOrEmpty(cfg, property) ==
  ~HasProperty(cfg, property) \/ Len(cfg[property]) = 0
C13_MissingOrEmptyListsRejected ==
  \A e \in Engines :
    (/\ ~IsNull(engine[e].config)
     /\ ListMissingOrEmpty(ConfigOf(e), "tiers") \/ ListMissingOrEmpty(ConfigOf(e), "traits"))
      => ~IsLoaded(e)

\* C14: a configuration whose tier quotas, or whose variant quotas of some
\* trait, do not sum to collectionSize is loaded all the same: loadConfig throws
\* nothing and leaves the counters at the configured quotas, generation runs on
\* them, and a validateFinalGeneration call that finds a counter not at 0 throws.
C14_MismatchOnlyWarns ==
  \A e \in Engines :
    (/\ ~IsNull(engine[e].config)
     /\ HasProperty(ConfigOf(e), "tiers") /\ HasProperty(ConfigOf(e), "traits")
     /\ Len(ConfigOf(e).traits) = Len(expectedTraitNames)
     /\ SumsDisagree(ConfigOf(e)))
      => /\ IsLoaded(e)
         /\ Len(results[e]) = 0 =>
               /\ thrown[e] = ""
               /\ Val(engine[e].remainingTierQuotas) = ConfigOf(e).tiers
               /\ Val(engine[e].remainingVariantQuotas) = ConfigOf(e).traits
         /\ (WasValidated(e) /\ ~AllCountersZero(e)) => ~ValidationOf(e).returned

\* C14 witness: under a configuration whose tier quotas do not sum to
\* collectionSize an item was generated, a later call failed, and the validator,
\* called after the run, threw over a variant left with quota.
C14_Witness ==
  /\ IsLoaded(1)
  /\ TotalTierQuota(ConfigOf(1)) # ConfigOf(1).collectionSize
  /\ Len(results[1]) = ConfigOf(1).collectionSize
  /\ \E i \in CallPositions(1) : Succeeded(1, i)
  /\ WasValidated(1)
  /\ ValidationOf(1).error = "Trait has variants with remaining quota"

\* What a counter record says of the configuration it was copied from: all of
\* the tier or variant record but its quota.
TierDescription(tier) == [id |-> tier.id, name |-> tier.name, scoreRange |-> tier.scoreRange]
VariantDescription(variant) ==
  [name |-> variant.name, tier |-> variant.tier, points |-> variant.points]
TraitDescription(trait) ==
  [trait |-> trait.trait,
   variants |-> [v \in 1..Len(trait.variants) |-> VariantDescription(trait.variants[v])]]
CountersDescribeConfig(e) ==
  LET cfg == ConfigOf(e)
      tiers == Val(engine[e].remainingTierQuotas)
      traits == Val(engine[e].remainingVariantQuotas)
  IN /\ HasProperty(cfg, "tiers") /\ HasProperty(cfg, "traits")
     /\ [k \in 1..Len(tiers) |-> TierDescription(tiers[k])]
          = [k \in 1..Len(cfg.tiers) |-> TierDescription(cfg.tiers[k])]
     /\ [t \in 1..Len(traits) |-> TraitDescription(traits[t])]
          = [t \in 1..Len(cfg.traits) |-> TraitDescription(cfg.traits[t])]

\* C15: after a loadConfig call that threw, the quota state is either not there
\* at all (neither counter list is initialized) or it is whole and the tier
\* counters, the variant counters and the configuration the engine reads score
\* ranges from describe one and the same configuration.
C15_FailedLoadLeavesStateWhole ==
  \A e \in Engines :
    thrown[e] # "" =>
      \/ IsNull(engine[e].remainingTierQuotas) /\ IsNull(engine[e].remainingVariantQuotas)
      \/ /\ ~IsNull(engine[e].remainingTierQuotas)
         /\ ~IsNull(engine[e].remainingVariantQuotas)
         /\ CountersDescribeConfig(e)

\* The draw of the claim: the weights are remaining x multiplier (kept in
\* tenths), the draw value is u = (seed / LcgModulus) x totalWeight, and the tier
\* is the first candidate at which u minus the weights so far is at most 0.
TenthsWeight(tier) == tier.quota * bellCurveMultiplier(tier.id)
RECURSIVE FirstAtOrBelowZero(_, _, _, _, _)
FirstAtOrBelowZero(weights, seed, total, i, sofar) ==
  IF i > Len(weights) THEN 0
  ELSE IF seed * total <= LcgModulus * (sofar + weights[i]) THEN i
  ELSE FirstAtOrBelowZero(weights, seed, total, i + 1, sofar + weights[i])
CandidateTiers(e) ==
  SelectSeq(Val(engine[e].remainingTierQuotas), LAMBDA tier : tier.quota > 0)
TierOfTheDraw(e) ==
  LET candidates == CandidateTiers(e)
      weights == [k \in 1..Len(candidates) |-> TenthsWeight(candidates[k])]
      first == FirstAtOrBelowZero(weights, engine[e].rngSeed, SumSeq(weights), 1, 0)
  IN candidates[first].id

\* C16: in selectTierWeighted the weight of every candidate tier is its remaining
\* quota times its multiplier (0.5, 0.7, 1.2, 1.8, 2.5 from the outermost tiers
\* to T5), and the tier returned is the first candidate, in configured order, at
\* which the draw value minus the weights so far is at most 0.
C16_TierDrawnByWeight ==
  (~IsNull(draw) /\ Val(draw).error = "") =>
     /\ \A k \in 1..Len(CandidateTiers(1)) :
          10 * TierWeight(CandidateTiers(1)[k]) = TenthsWeight(CandidateTiers(1)[k])
     /\ Val(draw).tierId = TierOfTheDraw(1)

\* C17: summed over the batches of one collection run, the items committed to a
\* tier never exceed the tier's configured quota, and the uses of a variant never
\* exceed the variant's quota.
BatchesOfRun == {e \in Engines : IsLoaded(e)}
CommittedOfTierIn(e, k) == IF e \in BatchesOfRun THEN CommittedOfTier(e, k) ELSE 0
CommittedOfVariantIn(e, t, v) == IF e \in BatchesOfRun THEN CommittedOfVariant(e, t, v) ELSE 0
C17_BatchesShareQuotas ==
  IsLoaded(1) =>
    /\ \A k \in TierPositions(1) :
         CommittedOfTierIn(1, k) + CommittedOfTierIn(2, k) <= ConfigOf(1).tiers[k].quota
    /\ \A t \in TraitPositions(1) : \A v \in VariantPositions(1, t) :
         CommittedOfVariantIn(1, t, v) + CommittedOfVariantIn(2, t, v)
           <= ConfigOf(1).traits[t].variants[v].quota

\* The variants array of the i-th result of e as its holder reads it: every
\* entry is { trait, variant }, and variant is the very object selectVariantsForTier
\* took out of remainingVariantQuotas, so its fields are read from there.
VariantsAsRead(eng, variants) ==
  [j \in 1..Len(variants) |->
     [trait |-> variants[j].trait,
      variant |-> Val(eng.remainingVariantQuotas)[variants[j].traitIndex]
                    .variants[variants[j].variantIndex]]]
ResultAsRead(eng, call) ==
  [success |-> call.result.success, tierId |-> call.result.tierId,
   tierName |-> call.result.tierName, score |-> call.result.score,
   attempts |-> call.result.attempts, error |-> call.result.error,
   variants |-> VariantsAsRead(eng, call.result.variants)]

\* C18: a result returned by generateNFT never changes afterwards: at every step
\* every earlier result of the engine reads the same in all its fields, those of
\* the variant records in its variants array included.
C18_ResultsImmutable ==
  [][\A e \in Engines : \A i \in CallPositions(e) :
       ResultAsRead(engine'[e], results'[e][i]) = ResultAsRead(engine[e], results[e][i])]_vars

\* The metadata of a run among the files a driver wrote.
MetadataEmitted ==
  {f \in driver.emitted : f.what \in {"item metadata", "aggregate metadata", "contract data"}}

\* C19: in every driver the completion check runs once after the items have
\* been attempted, and a run that ends with a counter not at 0 has emitted no
\* metadata: no item metadata file, no aggregate metadata, no contract data.
C19_CheckedBeforeMetadata ==
  (driver.pc = "done" /\ IsLoaded(1)) =>
     /\ driver.checks = 1
     /\ ~AllCountersZero(1) => MetadataEmitted = {}

\* What the contract stores.
Storage(c) ==
  [tierQuotas |-> c.tierQuotas, tierSupply |-> c.tierSupply,
   tierMinted |-> c.tierMinted, tokenRarity |-> c.tokenRarity,
   tokenIdCounter |-> c.tokenIdCounter, allTokens |-> c.allTokens]

\* The step in which the contract executes the transaction sent to it.
Executes == ~IsNull(contract.pending) /\ IsNull(contract'.pending)

\* Item i of the batch finds its tier full: the tokens minted before the call
\* and the earlier items of the batch in that tier make up the quota.
FullAt(c, rarityDataArray, i) ==
  c.tierMinted[rarityDataArray[i].tier]
    + Cardinality({j \in 1..(i - 1) : rarityDataArray[j].tier = rarityDataArray[i].tier})
  >= tierQuotas[rarityDataArray[i].tier + 1]

\* The call mints into a tier whose minted count has reached its quota.
MintsIntoFullTier(c, call) ==
  IF call.function = "mintRarityNFT"
  THEN c.tierMinted[call.tier] >= tierQuotas[call.tier + 1]
  ELSE \E i \in 1..Len(call.rarityDataArray) : FullAt(c, call.rarityDataArray, i)

\* A check the function makes before it looks at the quota of the full tier fails.
EarlierCheckFails(c, call) ==
  \/ call.sender # "owner"
  \/ /\ call.function = "mintRarityNFT"
     /\ totalSupply(c) >= MAX_SUPPLY(c.tierQuotas)
  \/ /\ call.function = "batchMintRarityNFTs"
     /\ \/ Len(call.rarityDataArray) # call.tokenURIs
        \/ totalSupply(c) + Len(call.rarityDataArray) > MAX_SUPPLY(c.tierQuotas)
        \/ \E i \in 1..Len(call.rarityDataArray) :
              /\ FullAt(c, call.rarityDataArray, i)
              /\ \E j \in 1..(i - 1) :
                    ~InTierRange(call.rarityDataArray[j].tier,
                                 call.rarityDataArray[j].totalPoints)

TierMintedWithinQuotas ==
  \A tier \in RarityTier : contract.tierMinted[tier] <= tierQuotas[tier + 1]

\* C20 as stated: after any sequence of mintRarityNFT and batchMintRarityNFTs
\* calls tierMinted[t] <= tierQuotas[t] for every tier t, and every mint into a
\* tier whose minted count has reached its quota reverts with 'Tier quota
\* exceeded' and changes no state.
C20_FullTierRevertsWithQuotaReason ==
  /\ []TierMintedWithinQuotas
  /\ [][(Executes /\ MintsIntoFullTier(contract, Val(contract.pending))) =>
          /\ contract'.reverted = "Tier quota exceeded"
          /\ Storage(contract') = Storage(contract)]_vars

\* C20, amended: after any sequence of mintRarityNFT and batchMintRarityNFTs
\* calls tierMinted[t] <= tierQuotas[t] for every tier t; every mint into a
\* tier whose minted count has reached its quota reverts and changes no state,
\* and the reason is 'Tier quota exceeded' unless a check made earlier fails:
\* the caller is not the owner, the supply is at MAX_SUPPLY (mintRarityNFT), the
\* array lengths differ, the batch would pass MAX_SUPPLY, or an item before the
\* one that finds its tier full has points outside its range (batchMintRarityNFTs).
C20_FullTierReverts ==
  /\ []TierMintedWithinQuotas
  /\ [][(Executes /\ MintsIntoFullTier(contract, Val(contract.pending))) =>
          /\ contract'.reverted # ""
          /\ Storage(contract') = Storage(contract)
          /\ ~EarlierCheckFails(contract, Val(contract.pending)) =>
                contract'.reverted = "Tier quota exceeded"]_vars

\* C20: a mint into a tier at its quota was executed and reverted with 'Tier
\* quota exceeded'.
C20_Witness ==
  /\ IsNull(contract.pending)
  /\ contract.reverted = "Tier quota exceeded"
  /\ \E tier \in RarityTier : contract.tierMinted[tier] = tierQuotas[tier + 1]

\* The RarityData records the call asks the contract to store.
DataOf(call) ==
  IF call.function = "mintRarityNFT"
  THEN {RarityData(call.tier, call.totalPoints, call.points)}
  ELSE {call.rarityDataArray[i] : i \in 1..Len(call.rarityDataArray)}

\* C21: every token the contract stores, whichever mint function created it,
\* has totalPoints equal to the sum of its six trait points, and a mint whose
\* totalPoints differs from that sum is rejected: it reverts and stores nothing.
C21_StoredTotalIsSumOfTraits ==
  /\ [](\A data \in contract.tokenRarity : data.totalPoints = SumSeq(data.points))
  /\ [][(Executes /\ \E data \in DataOf(Val(contract.pending)) :
                        data.totalPoints # SumSeq(data.points)) =>
          /\ contract'.reverted # ""
          /\ Storage(contract') = Storage(contract)]_vars

\* totalPoints is one of the scores of the inclusive score range of the tier.
WithinRangeOfTier(tier, totalPoints) ==
  totalPoints \in tierScoreRanges[tier + 1][1]..tierScoreRanges[tier + 1][2]

\* C22: for every tier T1..T9, mintRarityNFT called by the owner accepts a
\* token whose six uint8 trait points sum to a totalPoints inside the range of
\* the tier while the tier still has quota: the call does not revert. T9, whose
\* only total is 270 (six traits of 45 points), is included.
C22_InRangeMintAccepted ==
  [][(/\ Executes
      /\ Val(contract.pending).function = "mintRarityNFT"
      /\ Val(contract.pending).sender = "owner"
      /\ \A k \in DOMAIN Val(contract.pending).points :
            Val(contract.pending).points[k] \in 0..MaxUint8
      /\ Val(contract.pending).totalPoints = SumSeq(Val(contract.pending).points)
      /\ WithinRangeOfTier(Val(contract.pending).tier, Val(contract.pending).totalPoints)
      /\ contract.tierMinted[Val(contract.pending).tier]
           < tierQuotas[Val(contract.pending).tier + 1]) =>
        contract'.reverted = ""]_vars

\* The last call was getTierStats(tier).
StatsRead(tier) ==
  /\ ~IsNull(contract.returned)
  /\ Val(contract.returned).function = "getTierStats"
  /\ Val(contract.returned).tier = tier

\* C23: getTierStats(t) succeeds for every one of the 9 tiers and returns
\* quota = tierQuotas[t], minted = tierMinted[t] and remaining = quota - minted;
\* with the quotas of the source (10, 100, 500, 2390, 4000) the uint16
\* computation of the percentage does not overflow and revert.
C23_TierStatsReturned ==
  \A tier \in RarityTier :
     StatsRead(tier) =>
        /\ contract.reverted = ""
        /\ Val(contract.returned).values.quota = SourceTierQuotas[tier + 1]
        /\ Val(contract.returned).values.minted = contract.tierMinted[tier]
        /\ Val(contract.returned).values.remaining
             = SourceTierQuotas[tier + 1] - contract.tierMinted[tier]

\* C24: after any sequence of mints totalSupply() <= MAX_SUPPLY,
\* remainingSupply() = MAX_SUPPLY - totalSupply(), totalSupply() is the sum of
\* tierMinted over the 9 tiers, and each successful single mint increases
\* totalSupply() by exactly 1.
C24_SupplyAccounting ==
  /\ [](/\ totalSupply(contract) <= MAX_SUPPLY(tierQuotas)
        /\ remainingSupply(contract) = MAX_SUPPLY(tierQuotas) - totalSupply(contract)
        /\ totalSupply(contract)
             = SumSeq([i \in 1..Len(tierNames) |-> contract.tierMinted[i - 1]]))
  /\ [][(/\ Executes
         /\ Val(contract.pending).function = "mintRarityNFT"
         /\ contract'.reverted = "") =>
          totalSupply(contract') = totalSupply(contract) + 1]_vars

\* C24: mints of both kinds have brought the collection to MAX_SUPPLY.
C24_Witness ==
  /\ IsNull(contract.pending)
  /\ contract.reverted = ""
  /\ isMintingComplete(contract)
  /\ \E data \in contract.tokenRarity : data.totalPoints = SumSeq(data.points)

\* The call reaches the range check of a token with points outside the range
\* of its tier: every check the function makes before it passes.
RangeCheckReached(c, call) ==
  /\ call.sender = "owner"
  /\ IF call.function = "mintRarityNFT"
     THEN /\ totalSupply(c) < MAX_SUPPLY(c.tierQuotas)
          /\ c.tierMinted[call.tier] < c.tierSupply[call.tier]
          /\ CheckedSum(call.points, 0) = call.totalPoints
          /\ ~WithinRangeOfTier(call.tier, call.totalPoints)
     ELSE /\ Len(call.rarityDataArray) = call.tokenURIs
          /\ totalSupply(c) + Len(call.rarityDataArray) <= MAX_SUPPLY(c.tierQuotas)
          /\ \E i \in 1..Len(call.rarityDataArray) :
                /\ ~WithinRangeOfTier(call.rarityDataArray[i].tier,
                                call.rarityDataArray[i].totalPoints)
                /\ \A j \in 1..(i - 1) :
                      WithinRangeOfTier(call.rarityDataArray[j].tier,
                                  call.rarityDataArray[j].totalPoints)
                /\ \A j \in 1..i : ~FullAt(c, call.rarityDataArray, j)

StoredWithinTierRange ==
  \A data \in contract.tokenRarity : WithinRangeOfTier(data.tier, data.totalPoints)

\* C25 as stated: every token minted by either mint function has totalPoints
\* inside the inclusive score range of its tier, and every mint with points
\* outside the range of the tier reverts with 'Points not in tier range' and
\* changes no state.
C25_OutOfRangeRevertsWithRangeReason ==
  /\ []StoredWithinTierRange
  /\ [][(Executes /\ \E data \in DataOf(Val(contract.pending)) :
                        ~WithinRangeOfTier(data.tier, data.totalPoints)) =>
          /\ contract'.reverted = "Points not in tier range"
          /\ Storage(contract') = Storage(contract)]_vars

\* C25, amended: every token minted by either mint function has totalPoints
\* inside the inclusive score range of its tier; every mint with points outside
\* the range of the tier reverts and changes no state, and the reason is 'Points
\* not in tier range' when every check made before the range check passes: the
\* caller is the owner, the supply allows the mint, the tier of the token (and of
\* the items before it in a batch) has quota left, the earlier items of a batch
\* are in range and, in mintRarityNFT, the six trait points sum in uint8 to
\* totalPoints.
C25_OutOfRangeReverts ==
  /\ []StoredWithinTierRange
  /\ [][(Executes /\ \E data \in DataOf(Val(contract.pending)) :
                        ~WithinRangeOfTier(data.tier, data.totalPoints)) =>
          /\ contract'.reverted # ""
          /\ Storage(contract') = Storage(contract)
          /\ RangeCheckReached(contract, Val(contract.pending)) =>
                contract'.reverted = "Points not in tier range"]_vars

\* C25: a mint with points outside the range of its tier was executed and
\* reverted with 'Points not in tier range', after tokens were minted.
C25_Witness ==
  /\ IsNull(contract.pending)
  /\ contract.reverted = "Points not in tier range"
  /\ contract.tokenRarity # {}

\* The ordered selection of a result: which variant of which category, in the
\* order of the list.
SelectionOf(e, i) ==
  [j \in 1..Len(results[e][i].result.variants) |->
     << results[e][i].result.variants[j].traitIndex,
        results[e][i].result.variants[j].variantIndex >>]

\* C26: the items committed in one generation run are pairwise unique: no two
\* successful generateNFT results of the same engine carry the same ordered
\* selection of variants across the categories.
C26_CommittedItemsUnique ==
  \A e \in Engines : \A i \in CallPositions(e) : \A j \in CallPositions(e) :
     (i < j /\ Succeeded(e, i) /\ Succeeded(e, j)) => SelectionOf(e, i) # SelectionOf(e, j)

\* The tiers of engine 1 with remaining quota > 0, by position.
TiersWithQuota == {k \in TierPositions(1) : RemainingTier(1, k) > 0}

\* C27: selectTierWeighted throws if and only if no tier has remaining quota
\* > 0, and otherwise returns a tier whose remaining quota is > 0, whatever the
\* draw: draws of exactly 0, candidates of weight 0, a total weight of 0 and the
\* fallback to the first available tier included.
C27_DrawnTierHasQuota ==
  ~IsNull(draw) =>
     /\ Val(draw).error # "" <=> TiersWithQuota = {}
     /\ Val(draw).error = "" =>
          \E k \in TiersWithQuota : Val(engine[1].remainingTierQuotas)[k].id = Val(draw).tierId

\* C27: a tier was returned although every tier with quota left has weight 0.
C27_Witness ==
  /\ ~IsNull(draw)
  /\ Val(draw).error = ""
  /\ TiersWithQuota # {}
  /\ \A k \in TiersWithQuota : TierWeight(Val(engine[1].remainingTierQuotas)[k]) = 0

\* The list is one entry per configured category of e, in the order of the
\* configuration, every entry a variant the configuration tags with the tier.
OnePerCategoryOfTier(e, selectedVariants, tierId) ==
  /\ Len(selectedVariants) = Len(ConfigOf(e).traits)
  /\ \A j \in 1..Len(selectedVariants) :
        /\ selectedVariants[j].traitIndex = j
        /\ selectedVariants[j].trait = ConfigOf(e).traits[j].trait
        /\ selectedVariants[j].variantIndex \in VariantPositions(e, j)
        /\ ConfigOf(e).traits[j].variants[selectedVariants[j].variantIndex].tier = tierId

\* C28: every selection list selectVariantsForTier(t) produces (whether the
\* attempt then commits it or rejects it for its score) has exactly one entry
\* per configured category, in the configuration's category order, every variant
\* tagged with tier t; so every committed item consists of variants of its own
\* tier only.
C28_SelectionOnePerCategoryOfTier ==
  \A e \in Engines : \A i \in CallPositions(e) :
     /\ \A a \in 1..Len(results[e][i].log) :
           results[e][i].log[a].outcome \in {"committed", "out of range"} =>
              OnePerCategoryOfTier(e, results[e][i].log[a].selectedVariants,
                                   results[e][i].log[a].tierId)
     /\ Succeeded(e, i) =>
           OnePerCategoryOfTier(e, results[e][i].result.variants, results[e][i].result.tierId)

\* C28: an item of the second tier was committed in a configuration where every
\* category has a variant of the first tier with quota too.
C28_Witness ==
  \E i \in CallPositions(1) :
     /\ Succeeded(1, i)
     /\ results[1][i].result.tierId = ConfigOf(1).tiers[2].id
     /\ \A t \in TraitPositions(1) : \E v \in VariantPositions(1, t) :
           /\ ConfigOf(1).traits[t].variants[v].tier = ConfigOf(1).tiers[1].id
           /\ ConfigOf(1).traits[t].variants[v].quota > 0

\* In the engine the tier has remaining quota > 0, but some category has no
\* variant tagged with the tier that has remaining quota > 0.
CategoryExhaustedFor(eng, tierId) ==
  /\ \E k \in 1..Len(Val(eng.remainingTierQuotas)) :
        /\ Val(eng.remainingTierQuotas)[k].id = tierId
        /\ Val(eng.remainingTierQuotas)[k].quota > 0
  /\ \E t \in 1..Len(Val(eng.remainingVariantQuotas)) :
        \A v \in 1..Len(Val(eng.remainingVariantQuotas)[t].variants) :
           ~(/\ Val(eng.remainingVariantQuotas)[t].variants[v].tier = tierId
             /\ Val(eng.remainingVariantQuotas)[t].variants[v].quota > 0)

\* The call generateNFT has just returned from on engine e, with its attempt log.
CallJustMade(e) == results'[e][Len(results'[e])]

\* C29: when tier t has remaining quota > 0 but some category has no variant
\* tagged t with remaining quota > 0, an attempt of generateNFT that draws t
\* raises the exhaustion error of the category, commits nothing and counts as one
\* attempt; while the ceiling is not reached a new attempt follows, and it draws
\* its tier afresh from the generator instead of reusing t.
C29_ExhaustedCategoryRetries ==
  [][\A e \in Engines :
       (IsLoaded(e) /\ Len(results'[e]) = Len(results[e]) + 1) =>
         \A a \in 1..Len(CallJustMade(e).log) :
           (/\ \A b \in 1..(a - 1) : ~CallJustMade(e).log[b].countersChanged
            /\ CallJustMade(e).log[a].tierId # ""
            /\ CategoryExhaustedFor(engine[e], CallJustMade(e).log[a].tierId)) =>
              /\ CallJustMade(e).log[a].outcome = "error"
              /\ CallJustMade(e).log[a].error = "No available variants for trait"
              /\ ~CallJustMade(e).log[a].countersChanged
              /\ CallJustMade(e).returned
              /\ CallJustMade(e).result.attempts = Len(CallJustMade(e).log)
              /\ a < CallJustMade(e).maxRetries =>
                   /\ Len(CallJustMade(e).log) > a
                   /\ CallJustMade(e).log[a + 1].rngSeed # CallJustMade(e).log[a].rngSeed
                   /\ CallJustMade(e).log[a + 1].tierId
                        = selectTierWeighted(
                            [engine[e] EXCEPT !.rngSeed = CallJustMade(e).log[a + 1].rngSeed]).tierId]_vars

\* C29: an attempt failed on an exhausted category of its tier, and the attempt
\* after it drew another tier and committed an item.
C29_Witness ==
  \E i \in CallPositions(1) : \E a \in 1..Len(results[1][i].log) :
     /\ results[1][i].log[a].error = "No available variants for trait"
     /\ a < Len(results[1][i].log)
     /\ results[1][i].log[a + 1].tierId # results[1][i].log[a].tierId
     /\ results[1][i].log[a + 1].outcome = "committed"

\* C30: once loadConfig has succeeded, no generateNFT, getGenerationStatus or
\* validateFinalGeneration call changes the configuration the engine holds or the
\* object the caller passed in: a step that is not a load leaves both as they
\* were, the two stay equal, only the remaining counters move, and
\* getGenerationStatus reports for every tier the quota the caller's
\* configuration gave it.
ConfigurationKept(e) ==
  /\ engine[e].config = callerConfig[e]
  /\ LET status == getGenerationStatus(engine[e])
         loaded == Val(callerConfig[e]).tiers
     IN /\ status.error = ""
        /\ Len(status.tierStatus) = Len(loaded)
        /\ \A k \in 1..Len(loaded) :
              /\ status.tierStatus[k].id = loaded[k].id
              /\ status.tierStatus[k].originalQuota = loaded[k].quota

\* A step taken on a loaded engine is one of the three calls (a configuration is
\* loaded into a fresh engine only).
CallLeavesConfiguration(e) ==
  IsLoaded(e) => /\ engine'[e].config = engine[e].config
                 /\ callerConfig'[e] = callerConfig[e]

C30_ConfigurationNeverMutated ==
  /\ [](\A e \in Engines : IsLoaded(e) => ConfigurationKept(e))
  /\ [][\A e \in Engines : CallLeavesConfiguration(e)]_vars

\* C30 witness: a loaded engine has committed an item, so that a tier's remaining
\* counter is below its configured quota, and validateFinalGeneration has been
\* called on it since.
C30_Witness ==
  \E e \in Engines :
    /\ IsLoaded(e)
    /\ ~IsNull(validation[e])
    /\ \E i \in 1..Len(results[e]) : results[e][i].result.success
    /\ \E k \in 1..Len(ConfigOf(e).tiers) :
          Val(engine[e].remainingTierQuotas)[k].quota < ConfigOf(e).tiers[k].quota

\* C31: generateBatch(1, supply) of the local driver goes on past every failed
\* token and counts each token id once: when it has returned, success + failed is
\* the number of token ids, success is the number of metadata files written, and
\* the counts of tierDistribution sum to success.
SumOfCounts(counts) ==
  SumSeq([k \in 1..Len(AllTierIds) |->
            IF AllTierIds[k] \in DOMAIN counts THEN counts[AllTierIds[k]] ELSE 0])

MetadataFilesWritten == {f \in driver.emitted : f.what = "item metadata"}

BatchReturned == driver.kind = "local" /\ driver.pc = "done" /\ IsLoaded(1)

C31_BatchAccountsForEveryToken ==
  BatchReturned =>
    /\ driver.success + driver.failed = driver.supply
    /\ driver.success = Cardinality(MetadataFilesWritten)
    /\ SumOfCounts(driver.tierDistribution) = driver.success

\* C32: for every tier t and category c, the sum of the remaining quotas of c's
\* variants tagged t minus the remaining quota of t is in every reachable state
\* what it was at load time; so when the two are equal at load, a tier with
\* remaining quota > 0 has an available variant in every category.
TaggedQuota(traits, c, tierId) ==
  SumSeq([v \in 1..Len(traits[c].variants) |->
            IF traits[c].variants[v].tier = tierId THEN traits[c].variants[v].quota ELSE 0])

TierSurplus(tiers, traits, k, c) == TaggedQuota(traits, c, tiers[k].id) - tiers[k].quota

SurplusKept(e) ==
  \A k \in 1..Len(ConfigOf(e).tiers), c \in 1..Len(ConfigOf(e).traits) :
    TierSurplus(Val(engine[e].remainingTierQuotas), Val(engine[e].remainingVariantQuotas), k, c)
      = TierSurplus(ConfigOf(e).tiers, ConfigOf(e).traits, k, c)

BalancedAtLoad(e) ==
  \A k \in 1..Len(ConfigOf(e).tiers), c \in 1..Len(ConfigOf(e).traits) :
    TierSurplus(ConfigOf(e).tiers, ConfigOf(e).traits, k, c) = 0

C32_TierSurplusKept ==
  \A e \in Engines :
    IsLoaded(e) =>
      /\ SurplusKept(e)
      /\ BalancedAtLoad(e) =>
            \A k \in 1..Len(ConfigOf(e).tiers) :
              ~CategoryExhaustedFor(engine[e], ConfigOf(e).tiers[k].id)

\* C33: no tier with remaining quota is starved by the draw: in every quota
\* state, for each tier with remaining quota > 0 there is a value of the random
\* draw for which selectTierWeighted returns that tier.
SelectableBySomeDraw(eng, tierId) ==
  \E seed \in DrawSeeds : selectTierWeighted([eng EXCEPT !.rngSeed = seed]).tierId = tierId

C33_NoTierStarved ==
  \A k \in 1..Len(Val(engine[1].remainingTierQuotas)) :
    Val(engine[1].remainingTierQuotas)[k].quota > 0
      => SelectableBySomeDraw(engine[1], Val(engine[1].remainingTierQuotas)[k].id)

\* C34: loadConfig fully resets an engine: after loadConfig(c) has succeeded on
\* an engine that has generated items, the engine returns the same results and
\* goes through the same quota states, call after call, as a freshly
\* constructed engine loaded with c.
RECURSIVE ResultsAndQuotas(_, _)
ResultsAndQuotas(eng, calls) ==
  IF calls = 0 THEN << >>
  ELSE LET r == generateNFT(eng, MaxRetries)
       IN << [result |-> r.result, thrown |-> r.thrown, quotas |-> Counters(r.eng)] >>
            \o ResultsAndQuotas(r.eng, calls - 1)

FreshlyLoaded(configData) == loadConfig(NewEngine(InitialSeed), configData).eng

HasGenerated(e) == \E i \in 1..Len(results[e]) : results[e][i].result.success

\* The step is a loadConfig on engine e that did not throw, after generated items.
Reloaded(e) ==
  /\ HasGenerated(e)
  /\ results'[e] = results[e]
  /\ engine'[e] # engine[e]
  /\ thrown'[e] = ""

C34_ReloadResetsEngine ==
  [][\A e \in Engines :
       Reloaded(e) =>
         ResultsAndQuotas(engine'[e], MaxCalls)
           = ResultsAndQuotas(FreshlyLoaded(Val(callerConfig'[e])), MaxCalls)]_vars

\* C35: in the loop of the studio driver every item committed to the engine's
\* quota state is one saved edition: between two passes of the loop the number of
\* committed items (collectionSize minus the total remaining tier quota, for a
\* configuration whose tier quotas sum to collectionSize) is editionCount - 1.
CommittedItems(e) ==
  ConfigOf(e).collectionSize
    - SumSeq([k \in 1..Len(Val(engine[e].remainingTierQuotas)) |->
                Val(engine[e].remainingTierQuotas)[k].quota])

QuotasSumToCollectionSize(e) ==
  ConfigOf(e).collectionSize
    = SumSeq([k \in 1..Len(ConfigOf(e).tiers) |-> ConfigOf(e).tiers[k].quota])

BetweenPasses == driver.kind = "studio" /\ driver.pc = "loop" /\ IsLoaded(1)

C35_CommittedItemsAreEditions ==
  (BetweenPasses /\ QuotasSumToCollectionSize(1))
    => CommittedItems(1) = driver.editionCount - 1

\* C36: the loop of the studio driver always terminates: for any supply and any
\* quota state it makes at most supply + maxGlobalRetries generateNFT calls, and
\* then reaches the final validation or stops with the failure status. As a
\* property of every reachable state: the calls made are within that number,
\* and the driver has ended in one of the two ways or has its next step to take
\* (another pass of the loop, whose generateNFT call always returns, or the
\* steps after the loop).
StudioLoopEntered == driver.kind = "studio" /\ IsLoaded(1)

\* Final validation was called, or the loop returned on the exhausted budget.
StudioLoopEnded ==
  /\ driver.pc = "done"
  /\ driver.checks = 1 \/ driver.failed >= MaxGlobalRetries

C36_StudioLoopTerminates ==
  StudioLoopEntered =>
    /\ Len(results[1]) <= driver.supply + MaxGlobalRetries
    /\ StudioLoopEnded \/ DriverLoops \/ ENABLED DriverFinishes
====
